---- MODULE Spec2Model ----
(***************************************************************************)
(* A model of mcrender: the integer overlay kernels of the canvas module   *)
(* (scalar, SSE4.2, AVX2) and their slice-level dispatch, chunk parsing,   *)
(* the image buffer, region files, the tile column walker and the          *)
(* texture / sprite / asset caches.                                        *)
(***************************************************************************)
EXTENDS Integers, Sequences, FiniteSets, TLC

(***************************************************************************)
(* Bounds of the model.                                                    *)
(***************************************************************************)
\* longest pixel slice handed to the overlay dispatcher
MaxLen == 10
\* pixels of the surrounding allocation that follow the slice in memory
MaxTail == 3
\* longest block palette of a section
MaxPalette == 17
\* longest biome palette of a section
MaxBiomePalette == 3
\* most sections in a chunk
MaxSections == 3
\* largest width and height of an ImageBuf
MaxDim == 3
\* longest buffer handed to ImageBuf::from_raw, in subpixels
MaxBuf == 40
\* last sector of a region file (sectors 0 and 1 are the header)
MaxSector == 2
\* threads calling into one PartialSpriteCache
SpriteThreads == 2
\* calls these threads make in all
SpriteCalls == 3
\* threads calling into one AssetCache
AssetThreads == 2
\* calls these threads make in all
AssetCalls == 3
\* threads calling intern_str
InternThreads == 2
\* calls these threads make in all
InternCalls == 3
\* largest chunk coordinate asked of a ChunkCache (the smallest is -1)
MaxChunkSections == 25
InlineCapacity == 3
MaxPropOps == 4
MaxCoord == 2
\* most ChunkCache::get calls on one cache
MaxGets == 3
\* how many channel values the pixels of a single-pixel overlay are drawn from
MaxShades == 5
\* width of usize and isize in the image model, in bits
WordBits == 16

(***************************************************************************)
(* State.  Each component has its own variables; a specification runs one  *)
(* component and leaves the others parked (the xFrame of a component is    *)
(* every variable outside it).                                             *)
(***************************************************************************)
\* canvas/overlay.rs: one call of the slice-level overlay
VARIABLES
    ovFmt,      \* "rgba": RGBA8 onto RGBA8 (overlay_final); "rgb": RGBA8 onto RGB8
    ovFeature,  \* what is_x86_feature_detected! reports: "avx2", "sse4.2" or "none"
    ovLen,      \* self.len() = src.len(), in pixels
    ovSrc,      \* the bytes of the source allocation; the slice is its first ovLen pixels
    ovDst0,     \* the bytes of the destination allocation before the call
    ovSt,       \* destination bytes, pixels consumed, status, accesses, blends per pixel
    ovN,        \* n, the count the SIMD kernel returned (-1: not yet run)
    ovPc        \* "start", "remainder", "done", "panic", "fault" ("idle": not in use)

ovVars == << ovFmt, ovFeature, ovLen, ovSrc, ovDst0, ovSt, ovN, ovPc >>

\* world/mod.rs: one call of RawChunk::parse
VARIABLES
    pcNbt,      \* the deserialized chunk NBT (nbt::Chunk) and whether it deserializes
    pcChecks,   \* whether the build has integer overflow checks (debug) or not (release)
    pcResult,   \* what parse returned: status "ok" (with the chunk), "err" or "panic"
    pcPc        \* "call", "returned" ("idle": not in use)

parseVars == << pcNbt, pcChecks, pcResult, pcPc >>

\* canvas/buffer.rs: one ImageBuf
VARIABLES
    ibImage,    \* the ImageBuf obtained: [width, height, len, channels, data], or None
    ibRet,      \* what the constructor returned: "Some", "None" ("none": not called)
    ibBufLen,   \* buf.as_ref().len() given to from_raw (-1: from_pixel)
    ibAccess    \* outcome of the last channels() / pixels(): "ok", "panic" ("none")

bufVars == << ibImage, ibRet, ibBufLen, ibAccess >>

\* world/mod.rs: one region file and the Region opened on it
VARIABLES
    rgFile,     \* the file: its length in sectors, its location table, its chunk data
    rgChunks,   \* Region::chunks, the location records read by from_stream
    rgCall,     \* the last get_raw_chunk_by_index: index, record, seek, reads, result
    rgPc        \* "closed", "open", "err" ("idle": not in use)

regionVars == << rgFile, rgChunks, rgCall, rgPc >>

\* render/mod.rs: one DimensionRenderer and one render_map_column call on it
VARIABLES
    drWorld,    \* the dimension: its regions, what its chunks hold, the ChunkBounds
    drCol,      \* col, the tile column being rendered
    drRow,      \* the row the `for row in self.row_range()` loop is at
    drCache,    \* chunk_cache.cache: the LRU entries, most recently used first
    drLoads,    \* how many times the cache asked the dimension for a chunk
    drRendered, \* the render_chunk_context_at calls that drew a chunk, in order
    drSink,     \* the calls of the tile sink f: the row, whether the tile had
                \* drawn pixels, and what f returned
    drBuffer,   \* the runs of pixel rows of `buffer` that hold drawn pixels
    drPc        \* "walk", "ok" (returned Ok(())), "err", "panic" ("idle": not in use)

walkVars ==
    << drWorld, drCol, drRow, drCache, drLoads, drRendered, drSink, drBuffer, drPc >>

\* render/texture.rs, render/sprite.rs: one PartialSpriteCache (with the
\* TextureCache it owns) and the threads calling into it
VARIABLES
    txCache,    \* TextureCache::cache: name -> handle (0: no entry)
    txLock,     \* the RwLock of TextureCache::cache: readers and writer (0: none)
    spCache,    \* PartialSpriteCache::cache: (name, aspect, tint) -> handle (0: no entry)
    spLock,     \* the RwLock of PartialSpriteCache::cache
    objects,    \* the Arc allocations made so far: objects[handle] is what it holds
    thr,        \* per thread: the call it is in, where it is, what it holds
    spStats     \* per key: textures loaded, sprites computed, entries inserted

spriteVars == << txCache, txLock, spCache, spLock, objects, thr, spStats >>

\* asset.rs: one AssetCache and the threads calling into it
VARIABLES
    acAssets,   \* AssetCache::assets: key -> whether there is an entry, and its value
    acTextures, \* AssetCache::textures: name -> handle (0: no entry)
    acMutex,    \* the Mutex of assets: holder (0: free) and whether it is poisoned
    acTexMutex, \* the Mutex of textures
    acObjects,  \* how many Arc allocations (assets and textures) were made
    acThr,      \* per thread: the call it is in, where it is, what it holds
    acCreated   \* per key: how many times the creation function f was run

assetVars == << acAssets, acTextures, acMutex, acTexMutex, acObjects, acThr, acCreated >>

\* util.rs: the process-wide Interner and the threads calling intern_str
VARIABLES
    inReady,    \* whether the OnceLock INTERNER has been initialised
    inMap,      \* Interner::data: string -> the ArcStr stored as its key (0: no entry)
    inLock,     \* the RwLock of Interner::data
    inAllocs,   \* the ArcStr allocations made so far: inAllocs[handle] is its text
    inThr,      \* per thread: the call it is in, where it is, what it got
    inReturned, \* every return so far: << thread, call number, string, handle >>
    inInserted  \* per string: how many times an entry was inserted

internVars == << inReady, inMap, inLock, inAllocs, inThr, inReturned, inInserted >>

\* world/cache.rs: one ChunkCache and the get calls made on it
VARIABLES
    ccWorld,    \* dim_info and bounds: the regions, what their chunks hold, the ChunkBounds
    ccCache,    \* ChunkCache::cache: the LRU entries, most recently used first
    ccLoads,    \* how many times get_raw_chunk was called (region-file accesses)
    ccCall,     \* the last get: coords, what it returned, cache and loads before it
    ccGets      \* how many gets were made

cacheVars == << ccWorld, ccCache, ccLoads, ccCall, ccGets >>

\* canvas/overlay.rs: one call of the pixel-level overlay_final
VARIABLES
    pxBg,       \* self, the destination Rgba<u8>, before the call
    pxFg,       \* src, the foreground Rgba<u8>
    pxOut,      \* self after the call
    pxPc        \* "call", "done" ("idle": not in use)

pixelVars == << pxBg, pxFg, pxOut, pxPc >>

\* canvas/overlay.rs: one call of overlay_at on two images
VARIABLES
    blDst,      \* dst: an ImageBuf, or an ImageView into one
    blSrc,      \* src: an ImageBuf, or an ImageView into one
    blLeft,     \* left
    blTop,      \* top
    blChecks,   \* whether the build has integer overflow checks
    blOut,      \* the raw pixels of dst after the call, the raw indices written, the status
    blPc        \* "call", "done" ("idle": not in use)

blitVars == << blDst, blSrc, blLeft, blTop, blChecks, blOut, blPc >>

\* canvas/view.rs: one ImageBuf, a view of it, and a view of that view
VARIABLES
    vwRoot,     \* root, an ImageBuf
    vwArgs,     \* the rectangles: (a, b, w, h) of the first view, (c, d, W, H) of the second
    vwFirst,    \* root.view(a, b, w, h), or None
    vwSecond,   \* root.view(a, b, w, h).view(c, d, W, H), or None
    vwDirect,   \* root.view(a + c, b + d, W, H), or None
    vwGot,      \* the last get_pixel: on which view, x, y, what it returned
    vwPc        \* "root", "first", "second", "done", "got" ("idle": not in use)

viewVars == << vwRoot, vwArgs, vwFirst, vwSecond, vwDirect, vwGot, vwPc >>

\* world/mod.rs: one RegionChunkIter
VARIABLES
    itFile,     \* the region file behind the iterator's Region
    itChunks,   \* region.chunks, the location records
    itIndex,    \* index_iter: the next flat index it will give
    itItems,    \* what next() has returned so far, in order: [index, item]
    itPc        \* "iterating" ("idle": not in use)

iterVars == << itFile, itChunks, itIndex, itItems, itPc >>

\* render/mod.rs: one Renderer::render_chunk_context_at call
VARIABLES
    crSections, \* how many sections the chunk has (each full of blocks with sprites)
    crOut,      \* output: << width, height >> of the image drawn on
    crAt,       \* << x, y >>, where the chunk is drawn in the output
    crChecks,   \* whether the build has integer overflow checks (debug) or not (release)
    crI,        \* i, the section the loop is at
    crDrawn,    \* per section drawn: i, y_offset and the box of its sprites
    crPc        \* "loop", "ok", "panic" ("idle": not in use)

chunkVars == << crSections, crOut, crAt, crChecks, crI, crDrawn, crPc >>

\* proplist.rs: two PropLists
VARIABLES
    plItems,    \* per list: PropList::items
    plLast,     \* per list and key: the value most recently inserted for the key
                \* and not taken out since (None: the key is not in the list)
    plCall,     \* the last call: op, list, key, what it returned, whether the
                \* key was in the list before
    plOps       \* how many calls were made (-1: not in use)

propVars == << plItems, plLast, plCall, plOps >>

\* canvas/scalar.rs, sse4.rs, avx2.rs: one u16 handed to the divisions by 255
VARIABLES
    dvA,        \* a, the u16 (one 16-bit lane for the SIMD kernels)
    dvScalar,   \* what u16_div_by_255 returned (-1: not called)
    dvSimd,     \* what u16x16_div_by_255 left in the lane (-1: not called)
    dvSums,     \* the two sums of the expression, before they are cut to 16 bits
    dvPc        \* "scalar", "simd", "done" ("idle": not in use)

divVars == << dvA, dvScalar, dvSimd, dvSums, dvPc >>

ovFrame ==
    << parseVars, bufVars, regionVars, walkVars, spriteVars,
       assetVars, internVars, cacheVars, pixelVars, blitVars,
       viewVars, iterVars, chunkVars, propVars, divVars >>
parseFrame ==
    << ovVars, bufVars, regionVars, walkVars, spriteVars, assetVars,
       internVars, cacheVars, pixelVars, blitVars, viewVars,
       iterVars, chunkVars, propVars, divVars >>
bufFrame ==
    << ovVars, parseVars, regionVars, walkVars, spriteVars,
       assetVars, internVars, cacheVars, pixelVars, blitVars,
       viewVars, iterVars, chunkVars, propVars, divVars >>
regionFrame ==
    << ovVars, parseVars, bufVars, walkVars, spriteVars, assetVars,
       internVars, cacheVars, pixelVars, blitVars, viewVars,
       iterVars, chunkVars, propVars, divVars >>
walkFrame ==
    << ovVars, parseVars, bufVars, regionVars, spriteVars,
       assetVars, internVars, cacheVars, pixelVars, blitVars,
       viewVars, iterVars, chunkVars, propVars, divVars >>
spriteFrame ==
    << ovVars, parseVars, bufVars, regionVars, walkVars, assetVars,
       internVars, cacheVars, pixelVars, blitVars, viewVars,
       iterVars, chunkVars, propVars, divVars >>
assetFrame ==
    << ovVars, parseVars, bufVars, regionVars, walkVars, spriteVars,
       internVars, cacheVars, pixelVars, blitVars, viewVars,
       iterVars, chunkVars, propVars, divVars >>
internFrame ==
    << ovVars, parseVars, bufVars, regionVars, walkVars, spriteVars,
       assetVars, cacheVars, pixelVars, blitVars, viewVars,
       iterVars, chunkVars, propVars, divVars >>
cacheFrame ==
    << ovVars, parseVars, bufVars, regionVars, walkVars, spriteVars,
       assetVars, internVars, pixelVars, blitVars, viewVars,
       iterVars, chunkVars, propVars, divVars >>
pixelFrame ==
    << ovVars, parseVars, bufVars, regionVars, walkVars, spriteVars,
       assetVars, internVars, cacheVars, blitVars, viewVars,
       iterVars, chunkVars, propVars, divVars >>
blitFrame ==
    << ovVars, parseVars, bufVars, regionVars, walkVars, spriteVars,
       assetVars, internVars, cacheVars, pixelVars, viewVars,
       iterVars, chunkVars, propVars, divVars >>
viewFrame ==
    << ovVars, parseVars, bufVars, regionVars, walkVars, spriteVars,
       assetVars, internVars, cacheVars, pixelVars, blitVars,
       iterVars, chunkVars, propVars, divVars >>
iterFrame ==
    << ovVars, parseVars, bufVars, regionVars, walkVars, spriteVars,
       assetVars, internVars, cacheVars, pixelVars, blitVars,
       viewVars, chunkVars, propVars, divVars >>
chunkFrame ==
    << ovVars, parseVars, bufVars, regionVars, walkVars, spriteVars,
       assetVars, internVars, cacheVars, pixelVars, blitVars,
       viewVars, iterVars, propVars, divVars >>
propFrame ==
    << ovVars, parseVars, bufVars, regionVars, walkVars, spriteVars,
       assetVars, internVars, cacheVars, pixelVars, blitVars,
       viewVars, iterVars, chunkVars, divVars >>
divFrame ==
    << ovVars, parseVars, bufVars, regionVars, walkVars, spriteVars,
       assetVars, internVars, cacheVars, pixelVars, blitVars,
       viewVars, iterVars, chunkVars, propVars >>

vars == << ovVars, parseVars, bufVars, regionVars, walkVars, spriteVars,
          assetVars, internVars, cacheVars, pixelVars, blitVars,
          viewVars, iterVars, chunkVars, propVars, divVars >>

(***************************************************************************)
(* Generic helpers.                                                        *)
(***************************************************************************)
Min(a, b) == IF a < b THEN a ELSE b
Max(a, b) == IF a > b THEN a ELSE b

RECURSIVE Pow2(_)
Pow2(n) == IF n = 0 THEN 1 ELSE 2 * Pow2(n - 1)

(***************************************************************************)
(* canvas: 16-bit lane arithmetic of the SIMD kernels.                     *)
(***************************************************************************)
\* _mm_mullo_epi16 / _mm256_mullo_epi16: low 16 bits of the product
mullo_epi16(a, b) == (a * b) % 65536
\* _mm_subs_epu16: unsigned saturating subtraction
subs_epu16(a, b) == IF a > b THEN a - b ELSE 0
\* _mm_adds_epu16: unsigned saturating addition
adds_epu16(a, b) == IF a + b > 65535 THEN 65535 ELSE a + b
\* _mm_srli_epi16: logical shift right of each 16-bit lane
srli_epi16(a, n) == a \div Pow2(n)
\* _mm_packus_epi16 on one lane: signed 16-bit to unsigned 8-bit, saturating
packus_epi16(a) == IF a >= 32768 THEN 0 ELSE IF a > 255 THEN 255 ELSE a

\* sse4.rs / avx2.rs u16x16_div_by_255 (one lane)
u16x16_div_by_255(a) ==
    srli_epi16(adds_epu16(a, srli_epi16(adds_epu16(a, 257), 8)), 8)

\* sse4.rs / avx2.rs u16x16_rgba_overlay_final (one lane)
u16x16_rgba_overlay_final(dst, src, alpha) ==
    LET s == mullo_epi16(src, alpha)
        d == mullo_epi16(dst, subs_epu16(255, alpha))
    IN  u16x16_div_by_255(adds_epu16(s, d))

(***************************************************************************)
(* canvas: byte registers.  A register is a function from byte index       *)
(* (0-based) to a byte; `w` is its width in bytes (16 or 32).  The AVX2    *)
(* byte instructions work on each 128-bit half separately.                 *)
(***************************************************************************)
\* _mm_shuffle_epi8 / _mm256_shuffle_epi8: mask byte < 0 gives 0, else the
\* byte of the same 128-bit lane selected by the low four bits
shuffle_epi8(a, mask, w) ==
    [i \in 0..(w - 1) |->
        IF mask[i] < 0 THEN 0 ELSE a[16 * (i \div 16) + (mask[i] % 16)]]

\* _mm_unpacklo_epi8(a, zero) seen as 16-bit lanes
unpacklo_epi8(a, w) ==
    [j \in 0..(w \div 2 - 1) |-> a[16 * (j \div 8) + (j % 8)]]
\* _mm_unpackhi_epi8(a, zero) seen as 16-bit lanes
unpackhi_epi8(a, w) ==
    [j \in 0..(w \div 2 - 1) |-> a[16 * (j \div 8) + 8 + (j % 8)]]

\* _mm_packus_epi16(lo, hi) over whole registers
packus_reg(lo, hi, w) ==
    [i \in 0..(w - 1) |->
        LET h == i \div 16
            k == i % 16
        IN  IF k < 8 THEN packus_epi16(lo[8 * h + k])
                     ELSE packus_epi16(hi[8 * h + (k - 8)])]

\* the blend of one register of RGBA pixels (shared body of the four kernels):
\* alpha broadcast, low / high halves through u16x16_rgba_overlay_final, repack
AlphaShuffle(w) == [i \in 0..(w - 1) |-> 4 * ((i % 16) \div 4) + 3]

BlendRegister(dst, src, w) ==
    LET src_a == shuffle_epi8(src, AlphaShuffle(w), w)
        dlo == unpacklo_epi8(dst, w)
        slo == unpacklo_epi8(src, w)
        alo == unpacklo_epi8(src_a, w)
        dhi == unpackhi_epi8(dst, w)
        shi == unpackhi_epi8(src, w)
        ahi == unpackhi_epi8(src_a, w)
        out_lo == [j \in 0..(w \div 2 - 1) |->
                      u16x16_rgba_overlay_final(dlo[j], slo[j], alo[j])]
        out_hi == [j \in 0..(w \div 2 - 1) |->
                      u16x16_rgba_overlay_final(dhi[j], shi[j], ahi[j])]
    IN  packus_reg(out_lo, out_hi, w)

\* "Restore dst_a value": (alpha_mask & dst) | (~alpha_mask & out)
RestoreAlpha(dst, out, w) ==
    [i \in 0..(w - 1) |-> IF i % 4 = 3 THEN dst[i] ELSE out[i]]

(***************************************************************************)
(* canvas: pixel memory.  A buffer is a flat sequence of bytes (subpixels),*)
(* as in ImageBuf; a slice of `len` pixels starts at byte 0 of the buffer  *)
(* and the buffer may go on after it (the rest of the image).              *)
(***************************************************************************)
\* _mm_set_epi8(e15, ..., e0): the arguments are given from the top byte down
set_epi8(args) == [i \in 0..(Len(args) - 1) |-> args[Len(args) - i]]

\* an unaligned load of w bytes at byte offset `off`; bytes past the end of
\* the allocation read as `garbage`
LoadReg(mem, off, w, garbage) ==
    [i \in 0..(w - 1) |-> IF off + i + 1 <= Len(mem) THEN mem[off + i + 1] ELSE garbage]

\* an unaligned store of the first n bytes of reg at byte offset `off`; bytes
\* past the end of the allocation are lost
StoreReg(mem, off, reg, n) ==
    [k \in 1..Len(mem) |->
        IF k - 1 >= off /\ k - 1 < off + n THEN reg[k - 1 - off] ELSE mem[k]]

\* count one more blend for pixels i .. i+n-1
Bump(blended, i, n) ==
    [p \in DOMAIN blended |-> IF p >= i /\ p < i + n THEN blended[p] + 1 ELSE blended[p]]

\* the state a kernel threads through its loop
KernelStart(dst, pixels) ==
    [dst |-> dst, count |-> 0, status |-> "ok", touched |-> 0,
     blended |-> [p \in 0..(pixels - 1) |-> 0]]

(***************************************************************************)
(* canvas/scalar.rs                                                        *)
(***************************************************************************)
\* a variant without the rounding term
u16_div_by_255_NoRounding(a) == ((a + (a \div 256)) % 65536) \div 256

\* scalar.rs u16_div_by_255, in wrapping u16 arithmetic
u16_div_by_255(a) == ((a + (((a + 257) % 65536) \div 256)) % 65536) \div 256

\* a variant that divides by 256
blend_final_pixel_u8_Shift(bg, fg, fg_a) ==
    IF fg_a = 0 THEN bg
    ELSE IF fg_a = 255 THEN fg
    ELSE LET f == (fg * fg_a) % 65536
             b == (bg * (255 - fg_a)) % 65536
         IN  (((f + b) % 65536) \div 256) % 256

\* overlay.rs / scalar.rs blend_final_pixel_u8, for one channel
blend_final_pixel_u8(bg, fg, fg_a) ==
    IF fg_a = 0 THEN bg
    ELSE IF fg_a = 255 THEN fg
    ELSE LET f == (fg * fg_a) % 65536
             b == (bg * (255 - fg_a)) % 65536
             r == (f + b) % 65536
         IN  u16_div_by_255(r) % 256

\* scalar.rs rgba8_overlay_final / rgba8_onto_rgb8_overlay on the sub-slices
\* [from..len): ch is the number of destination channels (4 or 3); the
\* destination alpha (ch = 4) is left alone
RECURSIVE ScalarLoop(_, _, _, _, _)
ScalarLoop(st, src, len, i, ch) ==
    IF i >= len THEN st
    ELSE LET a == src[4 * i + 4]
             out == [k \in 1..Len(st.dst) |->
                       IF k > ch * i /\ k <= ch * i + 3
                       THEN blend_final_pixel_u8(st.dst[k], src[4 * i + (k - ch * i)], a)
                       ELSE st.dst[k]]
         IN  ScalarLoop([st EXCEPT !.dst = out,
                                   !.count = st.count + 1,
                                   !.touched = Max(st.touched, i + 1),
                                   !.blended = Bump(st.blended, i, 1)],
                        src, len, i + 1, ch)

scalar_rgba8_overlay_final(st, src, len, from) == ScalarLoop(st, src, len, from, 4)
scalar_rgba8_onto_rgb8_overlay(st, src, len, from) == ScalarLoop(st, src, len, from, 3)

(***************************************************************************)
(* canvas/sse4.rs                                                          *)
(***************************************************************************)
\* rgba8_overlay_final: `for i in (0..dst_pixels.len()).step_by(4)`, each
\* iteration loading and storing 16 bytes at pixel i without a bounds check.
\* ub.fault: an access outside the allocation ends the process;
\* ub.garbage: otherwise the byte it reads.
RECURSIVE sse4_rgba8_overlay_final_from(_, _, _, _, _)
sse4_rgba8_overlay_final_from(st, src, len, i, ub) ==
    IF i >= len \/ st.status # "ok" THEN st
    ELSE IF (4 * (i + 4) > Len(st.dst) \/ 4 * (i + 4) > Len(src)) /\ ub.fault
    THEN [st EXCEPT !.status = "fault", !.touched = Max(st.touched, i + 4)]
    ELSE LET dst == LoadReg(st.dst, 4 * i, 16, ub.garbage)
             s == LoadReg(src, 4 * i, 16, ub.garbage)
             out == RestoreAlpha(dst, BlendRegister(dst, s, 16), 16)
         IN  sse4_rgba8_overlay_final_from(
                 [st EXCEPT !.dst = StoreReg(st.dst, 4 * i, out, 16),
                            !.count = st.count + 4,
                            !.touched = Max(st.touched, i + 4),
                            !.blended = Bump(st.blended, i, 4)],
                 src, len, i + 4, ub)

sse4_rgba8_overlay_final(st, src, len, ub) ==
    sse4_rgba8_overlay_final_from(st, src, len, 0, ub)

\* pixel_shuffle / pixel_unshuffle of sse4.rs rgba8_onto_rgb8_overlay
sse4_pixel_shuffle ==
    set_epi8(<< -1, 11, 10, 9,  -1, 8, 7, 6,  -1, 5, 4, 3,  -1, 2, 1, 0 >>)
sse4_pixel_unshuffle ==
    set_epi8(<< -1, -1, -1, -1,  14, 13, 12,  10, 9, 8,  6, 5, 4,  2, 1, 0 >>)

\* rgba8_onto_rgb8_overlay: the destination goes through the 16-byte dst_buf;
\* `&dst_pixels[i..i + 4]` is a checked slice and panics when i + 4 > len
RECURSIVE sse4_rgba8_onto_rgb8_overlay_from(_, _, _, _, _, _)
sse4_rgba8_onto_rgb8_overlay_from(st, src, len, i, dst_buf, ub) ==
    IF i >= len \/ st.status # "ok" THEN st
    ELSE IF i + 4 > len
    THEN [st EXCEPT !.status = "panic"]
    ELSE LET buf == [k \in 0..15 |-> IF k < 12 THEN st.dst[3 * i + k + 1] ELSE dst_buf[k]]
             dst == shuffle_epi8(buf, sse4_pixel_shuffle, 16)
             s == LoadReg(src, 4 * i, 16, ub.garbage)
             out == shuffle_epi8(BlendRegister(dst, s, 16), sse4_pixel_unshuffle, 16)
         IN  sse4_rgba8_onto_rgb8_overlay_from(
                 [st EXCEPT !.dst = StoreReg(st.dst, 3 * i, out, 12),
                            !.count = st.count + 4,
                            !.touched = Max(st.touched, i + 4),
                            !.blended = Bump(st.blended, i, 4)],
                 src, len, i + 4, out, ub)

sse4_rgba8_onto_rgb8_overlay(st, src, len, ub) ==
    sse4_rgba8_onto_rgb8_overlay_from(st, src, len, 0, [k \in 0..15 |-> 0], ub)

(***************************************************************************)
(* canvas/avx2.rs                                                          *)
(***************************************************************************)
CHUNK_LEN == 8

\* rgba8_overlay_final: chunks_mut(CHUNK_LEN) zipped with chunks(CHUNK_LEN),
\* leaving the loop at the first chunk shorter than CHUNK_LEN
RECURSIVE avx2_rgba8_overlay_final_from(_, _, _, _)
avx2_rgba8_overlay_final_from(st, src, len, i) ==
    IF i >= len \/ len - i < CHUNK_LEN THEN st
    ELSE LET dst == LoadReg(st.dst, 4 * i, 32, 0)
             s == LoadReg(src, 4 * i, 32, 0)
             out == RestoreAlpha(dst, BlendRegister(dst, s, 32), 32)
         IN  avx2_rgba8_overlay_final_from(
                 [st EXCEPT !.dst = StoreReg(st.dst, 4 * i, out, 32),
                            !.count = st.count + CHUNK_LEN,
                            !.touched = Max(st.touched, i + CHUNK_LEN),
                            !.blended = Bump(st.blended, i, CHUNK_LEN)],
                 src, len, i + CHUNK_LEN)

avx2_rgba8_overlay_final(st, src, len) == avx2_rgba8_overlay_final_from(st, src, len, 0)

\* pixel_shuffle / pixel_unshuffle of avx2.rs rgba8_onto_rgb8_overlay
avx2_pixel_shuffle ==
    set_epi8(<< -1, 11, 10, 9,  -1, 8, 7, 6,  -1, 5, 4, 3,  -1, 2, 1, 0,
                -1, 15, 14, 13,  -1, 12, 11, 10,  -1, 9, 8, 7,  -1, 6, 5, 4 >>)
avx2_pixel_unshuffle ==
    set_epi8(<< -1, -1, -1, -1,  14, 13, 12,  10, 9, 8,  6, 5, 4,  2, 1, 0,
                14, 13, 12,  10, 9, 8,  6, 5, 4,  2, 1, 0,  -1, -1, -1, -1 >>)

\* rgba8_onto_rgb8_overlay: the chunk's 24 bytes sit in dst_buf[4..28]
RECURSIVE avx2_rgba8_onto_rgb8_overlay_from(_, _, _, _, _)
avx2_rgba8_onto_rgb8_overlay_from(st, src, len, i, dst_buf) ==
    IF i >= len \/ len - i < CHUNK_LEN THEN st
    ELSE LET buf == [k \in 0..31 |->
                       IF k >= 4 /\ k < 28 THEN st.dst[3 * i + (k - 4) + 1] ELSE dst_buf[k]]
             dst == shuffle_epi8(buf, avx2_pixel_shuffle, 32)
             s == LoadReg(src, 4 * i, 32, 0)
             out == shuffle_epi8(BlendRegister(dst, s, 32), avx2_pixel_unshuffle, 32)
             back == [k \in 0..23 |-> out[k + 4]]
         IN  avx2_rgba8_onto_rgb8_overlay_from(
                 [st EXCEPT !.dst = StoreReg(st.dst, 3 * i, back, 24),
                            !.count = st.count + CHUNK_LEN,
                            !.touched = Max(st.touched, i + CHUNK_LEN),
                            !.blended = Bump(st.blended, i, CHUNK_LEN)],
                 src, len, i + CHUNK_LEN, out)

avx2_rgba8_onto_rgb8_overlay(st, src, len) ==
    avx2_rgba8_onto_rgb8_overlay_from(st, src, len, 0, [k \in 0..31 |-> 0])

(***************************************************************************)
(* canvas/overlay.rs: the slice-level dispatch                             *)
(*   impl Overlay<[Rgba<u8>]> for [Rgb<u8>]  :: overlay        (fmt "rgb") *)
(*   impl Overlay<[Rgba<u8>]> for [Rgba<u8>] :: overlay_final  (fmt "rgba")*)
(***************************************************************************)
\* pixels the inputs are drawn from: background and foreground values at and
\* next to the ends of the range, every alpha case (0, 255, and in between)
DstPalette == << <<0, 128, 255, 255>>, <<1, 254, 127, 0>>, <<37, 200, 90, 128>> >>
SrcPalette == << <<255, 0, 128, 0>>, <<12, 255, 1, 255>>, <<255, 255, 255, 1>>,
                 <<0, 0, 0, 254>>, <<200, 100, 50, 128>>, <<255, 1, 77, 127>> >>

Channels(fmt) == IF fmt = "rgba" THEN 4 ELSE 3

\* a buffer of `pixels` pixels of `ch` channels, pixel p taken from the palette
\* at position rot + p
PixelBuffer(palette, rot, pixels, ch) ==
    [k \in 1..(pixels * ch) |->
        palette[((rot + ((k - 1) \div ch)) % Len(palette)) + 1][((k - 1) % ch) + 1]]

OverlayInit ==
    \E len \in 0..MaxLen, tail \in 0..MaxTail,
       dr \in 0..(Len(DstPalette) - 1), sr \in 0..(Len(SrcPalette) - 1),
       fmt \in {"rgba", "rgb"}, feature \in {"avx2", "sse4.2", "none"} :
        /\ ovFmt = fmt
        /\ ovFeature = feature
        /\ ovLen = len
        /\ ovSrc = PixelBuffer(SrcPalette, sr, len + tail, 4)
        /\ ovDst0 = PixelBuffer(DstPalette, dr, len + tail, Channels(fmt))
        /\ ovSt = KernelStart(PixelBuffer(DstPalette, dr, len + tail, Channels(fmt)),
                              len + tail)
        /\ ovN = -1
        /\ ovPc = "start"

OverlayIdle ==
    /\ ovFmt = "rgba" /\ ovFeature = "none" /\ ovLen = 0 /\ ovSrc = << >>
    /\ ovDst0 = << >> /\ ovSt = KernelStart(<< >>, 0) /\ ovN = -1 /\ ovPc = "idle"

\* where the dispatcher goes after the kernel returned or died
AfterKernel(st) == IF st.status = "ok" THEN "remainder" ELSE st.status

\* `if !DISABLE_AVX2 && is_x86_feature_detected!("avx2")`
Avx2Pass ==
    /\ ovPc = "start" /\ ovFeature = "avx2"
    /\ LET st == IF ovFmt = "rgba"
                 THEN avx2_rgba8_overlay_final(ovSt, ovSrc, ovLen)
                 ELSE avx2_rgba8_onto_rgb8_overlay(ovSt, ovSrc, ovLen)
       IN  /\ ovSt' = st
           /\ ovN' = st.count
           /\ ovPc' = AfterKernel(st)
    /\ UNCHANGED << ovFmt, ovFeature, ovLen, ovSrc, ovDst0 >>
    /\ UNCHANGED ovFrame

\* `else if !DISABLE_SSE4 && is_x86_feature_detected!("sse4.2")`
Sse4Pass ==
    /\ ovPc = "start" /\ ovFeature = "sse4.2"
    /\ \E fault \in BOOLEAN, garbage \in {0, 255} :
        LET ub == [fault |-> fault, garbage |-> garbage]
            st == IF ovFmt = "rgba"
                  THEN sse4_rgba8_overlay_final(ovSt, ovSrc, ovLen, ub)
                  ELSE sse4_rgba8_onto_rgb8_overlay(ovSt, ovSrc, ovLen, ub)
        IN  /\ ovSt' = st
            /\ ovN' = st.count
            /\ ovPc' = AfterKernel(st)
    /\ UNCHANGED << ovFmt, ovFeature, ovLen, ovSrc, ovDst0 >>
    /\ UNCHANGED ovFrame

\* `else { 0 }`
NoSimdPass ==
    /\ ovPc = "start" /\ ovFeature = "none"
    /\ ovN' = 0
    /\ ovPc' = "remainder"
    /\ UNCHANGED << ovFmt, ovFeature, ovLen, ovSrc, ovDst0, ovSt >>
    /\ UNCHANGED ovFrame

\* `if n < self.len() { scalar::...(&mut self[n..], &src[n..]) }`
ScalarRemainder ==
    /\ ovPc = "remainder"
    /\ ovSt' = IF ovN < ovLen
               THEN IF ovFmt = "rgba"
                    THEN scalar_rgba8_overlay_final(ovSt, ovSrc, ovLen, ovN)
                    ELSE scalar_rgba8_onto_rgb8_overlay(ovSt, ovSrc, ovLen, ovN)
               ELSE ovSt
    /\ ovPc' = "done"
    /\ UNCHANGED << ovFmt, ovFeature, ovLen, ovSrc, ovDst0, ovN >>
    /\ UNCHANGED ovFrame

OverlayNext == Avx2Pass \/ Sse4Pass \/ NoSimdPass \/ ScalarRemainder

\* what the scalar implementation alone leaves in the destination
ScalarReference ==
    ScalarLoop(KernelStart(ovDst0, Len(ovDst0) \div Channels(ovFmt)), ovSrc, ovLen, 0,
               Channels(ovFmt)).dst

(***************************************************************************)
(* world/mod.rs: RawChunk::parse                                           *)
(***************************************************************************)
CHUNK_SIZE == 16
SECTION_BLOCK_COUNT == CHUNK_SIZE * CHUNK_SIZE * CHUNK_SIZE
SECTION_BIOME_COUNT == SECTION_BLOCK_COUNT \div (4 * 4 * 4)
\* u64::BITS
U64_BITS == 64
\* the length copy_from_slice demands of a SkyLight array: [-1i8; 2048]
SKY_LIGHT_LEN == 2048
\* LAYER_LEN: one horizontal layer of nibbles
LAYER_LEN == (CHUNK_SIZE * CHUNK_SIZE) \div 2

\* The 64-bit words a LongArray is made of, least significant bit first.  A
\* LongArray is a sequence of indices into this table.
Words == <<
    [j \in 0..(U64_BITS - 1) |-> 0],
    [j \in 0..(U64_BITS - 1) |-> 1],
    [j \in 0..(U64_BITS - 1) |-> IF j % 4 = 0 THEN 1 ELSE 0],
    [j \in 0..(U64_BITS - 1) |-> IF (j % 7) \in {0, 1, 5} \/ j % 11 = 3 THEN 1 ELSE 0],
    [j \in 0..(U64_BITS - 1) |-> IF j % 5 = 2 \/ j % 3 = 0 THEN 1 ELSE 0] >>

\* u64::BITS - m.leading_zeros(): the number of significant bits of m
RECURSIVE BitLength(_)
BitLength(m) == IF m = 0 THEN 0 ELSE 1 + BitLength(m \div 2)

\* Option<T>
None == [present |-> FALSE, v |-> << >>]
Some(x) == [present |-> TRUE, v |-> x]

\* the outcome of a step that can panic
Panic == [ok |-> FALSE, v |-> << >>]
Ok(x) == [ok |-> TRUE, v |-> x]

\* `u64::BITS - (palette_count - 1).leading_zeros()`: palette_count - 1
\* overflows for an empty palette, which panics when overflow checks are
\* compiled in and wraps to u64::MAX (64 significant bits) when they are not
IndexBits(palette_count, overflow_checks) ==
    IF palette_count = 0
    THEN IF overflow_checks THEN Panic ELSE Ok(U64_BITS)
    ELSE Ok(BitLength(palette_count - 1))

\* the low `n` bits of word w shifted right by `shift`, as a number, taken
\* modulo 2^trunc (`next as u16`, `next as u8`)
RECURSIVE FieldValue(_, _, _, _)
FieldValue(w, shift, n, trunc) ==
    IF n = 0 \/ trunc = 0 THEN 0
    ELSE (IF shift < U64_BITS THEN w[shift] ELSE 0)
         + 2 * FieldValue(w, shift + 1, n - 1, trunc - 1)

\* a variant that packs the indices with no padding, index i starting at bit
\* i * bits of the whole array (the bits that would come from the next word
\* read as 0)
Unpack_Unpadded(data, bits, count, trunc, overflow_checks) ==
    IF bits = 0 THEN Panic
    ELSE IF bits >= U64_BITS /\ overflow_checks THEN Panic
    ELSE Ok([i \in 0..(count - 1) |->
                IF ((i * bits) \div U64_BITS) < Len(data)
                THEN FieldValue(Words[data[((i * bits) \div U64_BITS) + 1]],
                                (i * bits) % U64_BITS, bits, trunc)
                ELSE 0])

\* the unpacking shared by the block and the biome indices: `bits` per index,
\* `packing` indices per word, `count` cells; cells the data does not reach
\* keep 0.
\*   bits = 0        : `u64::BITS as usize / bits` divides by zero and panics
\*   bits = u64::BITS: `1u64 << bits` overflows; without overflow checks the
\*                     shift count is masked, the mask is (1 << 0) - 1 = 0
Unpack(data, bits, count, trunc, overflow_checks) ==
    IF bits = 0 THEN Panic
    ELSE IF bits >= U64_BITS /\ overflow_checks THEN Panic
    ELSE LET packing == U64_BITS \div bits
             mask_bits == IF bits >= U64_BITS THEN 0 ELSE bits
             fields == [t \in 1..Len(Words) |->
                          [k \in 0..(packing - 1) |->
                              FieldValue(Words[t], k * bits, mask_bits, trunc)]]
         IN  Ok([i \in 0..(count - 1) |->
                    IF (i \div packing) < Len(data)
                    THEN fields[data[(i \div packing) + 1]][i % packing]
                    ELSE 0])

\* BIndex::from_flat_index followed by BIndex::to_biome_index
to_biome_index(i) ==
    LET x == i % 16
        z == (i \div 16) % 16
        y == (i \div 256) % 16
    IN  (y \div 4) * 16 + (z \div 4) * 4 + (x \div 4)

\* `[v & 0xF, v >> 4]` zipped with the blocks: the nibble of block i
Nibble(bytes, i) ==
    LET v == bytes[(i \div 2) + 1]
    IN  IF i % 2 = 0 THEN v % 16 ELSE v \div 16

\* block index unpacking: bits = max(4, ...)
UnpackStates(nbt, overflow_checks) ==
    IF ~nbt.block_data.present
    THEN Ok([i \in 0..(SECTION_BLOCK_COUNT - 1) |-> 0])
    ELSE LET b == IndexBits(nbt.block_palette, overflow_checks)
         IN  IF ~b.ok THEN Panic
             ELSE Unpack(nbt.block_data.v, Max(4, b.v), SECTION_BLOCK_COUNT, 16,
                         overflow_checks)

\* biome index unpacking: no minimum width
UnpackBiomes(nbt, overflow_checks) ==
    IF ~nbt.biome_data.present
    THEN Ok([i \in 0..(SECTION_BIOME_COUNT - 1) |-> 0])
    ELSE LET b == IndexBits(nbt.biome_palette, overflow_checks)
         IN  IF ~b.ok THEN Panic
             ELSE Unpack(nbt.biome_data.v, b.v, SECTION_BIOME_COUNT, 8, overflow_checks)

\* the first loop of parse for one section: palettes, state and biome
\* indices, block light
ParseSection(nbt, overflow_checks) ==
    LET states == UnpackStates(nbt, overflow_checks)
        indices == UnpackBiomes(nbt, overflow_checks)
    IN  IF ~states.ok \/ ~indices.ok THEN Panic
        ELSE Ok([block_palette |-> nbt.block_palette,
                 biome_palette |-> nbt.biome_palette,
                 state_index |-> states.v,
                 biome_index |-> [i \in 0..(SECTION_BLOCK_COUNT - 1) |->
                                     indices.v[to_biome_index(i)]],
                 block |-> [i \in 0..(SECTION_BLOCK_COUNT - 1) |->
                               IF nbt.block_light.present
                                  /\ (i \div 2) < Len(nbt.block_light.v)
                               THEN Nibble(nbt.block_light.v, i) ELSE 0],
                 sky |-> [i \in 0..(SECTION_BLOCK_COUNT - 1) |-> 0]])

\* a variant that duplicates the top layer of the section above
InheritedSkyLight_TopLayer(sky_light) ==
    [b \in 1..SKY_LIGHT_LEN |->
        sky_light[SKY_LIGHT_LEN - LAYER_LEN + ((b - 1) % LAYER_LEN) + 1]]

\* "No data for this section, so duplicate the bottom layer of the section
\* above": sky_light.copy_within(0..LAYER_LEN, i) for every further layer i
InheritedSkyLight(sky_light) ==
    [b \in 1..SKY_LIGHT_LEN |-> sky_light[((b - 1) % LAYER_LEN) + 1]]

\* the second loop of parse, top section first: `sky_light` is the running
\* 2048-byte array (all 0xFF above the chunk); sections[1..k] are still to do.
\* copy_from_slice panics when the lengths differ.
RECURSIVE SkyLightPass(_, _, _, _)
SkyLightPass(sections, nbts, k, sky_light) ==
    IF k = 0 THEN Ok(sections)
    ELSE IF nbts[k].sky_light.present /\ Len(nbts[k].sky_light.v) # SKY_LIGHT_LEN
    THEN Panic
    ELSE LET cur == IF nbts[k].sky_light.present
                    THEN nbts[k].sky_light.v
                    ELSE InheritedSkyLight(sky_light)
             done == [sections EXCEPT ![k].sky =
                         [i \in 0..(SECTION_BLOCK_COUNT - 1) |-> Nibble(cur, i)]]
         IN  SkyLightPass(done, nbts, k - 1, cur)

\* RawChunk::parse: Err when the NBT does not deserialize, else the chunk
ParseChunk(nbt, overflow_checks) ==
    IF ~nbt.deserializes THEN [status |-> "err"]
    ELSE LET first == [k \in 1..Len(nbt.sections) |->
                          ParseSection(nbt.sections[k], overflow_checks)]
         IN  IF \E k \in 1..Len(first) : ~first[k].ok THEN [status |-> "panic"]
             ELSE LET lit == SkyLightPass([k \in 1..Len(first) |-> first[k].v],
                                          nbt.sections, Len(first),
                                          [b \in 1..SKY_LIGHT_LEN |-> 255])
                  IN  IF ~lit.ok THEN [status |-> "panic"]
                      ELSE [status |-> "ok",
                            fully_generated |-> nbt.fully_generated,
                            sections |-> lit.v]

\* a LongArray of n words, word k being Words[((first + k) % Len(Words)) + 1]
LongArray(n, first, step) == [k \in 1..n |-> ((first + step * k) % Len(Words)) + 1]
\* a ByteArray of n bytes
ByteArray(n, first, step) == [k \in 1..n |-> (first + step * k) % 256]

\* words that cover every block at 5 bits per index (12 per word)
FULL_DATA_WORDS == 342

\* block data, biome data and block light of the sections offered to parse:
\*   0: none of them;  1: all bits set, full length;
\*   2: mixed words, full length;  3: shorter than the section
SectionData(kind) ==
    CASE kind = 0 -> [block_data |-> None, biome_data |-> None, block_light |-> None]
      [] kind = 1 -> [block_data |-> Some(LongArray(FULL_DATA_WORDS, 1, 0)),
                      biome_data |-> Some(LongArray(3, 1, 0)),
                      block_light |-> Some(ByteArray(SKY_LIGHT_LEN, 255, 0))]
      [] kind = 2 -> [block_data |-> Some(LongArray(FULL_DATA_WORDS, 0, 1)),
                      biome_data |-> Some(LongArray(3, 2, 1)),
                      block_light |-> Some(ByteArray(SKY_LIGHT_LEN, 3, 7))]
      [] OTHER    -> [block_data |-> Some(LongArray(1, 3, 0)),
                      biome_data |-> Some(LongArray(1, 4, 0)),
                      block_light |-> Some(ByteArray(3, 200, 29))]

\* SkyLight of a section: 0: absent; 1: 2048 bytes; 2: one byte short
SkyData(kind, k) ==
    CASE kind = 0 -> None
      [] kind = 1 -> Some(ByteArray(SKY_LIGHT_LEN, 16 * k + 1, 13))
      [] OTHER    -> Some(ByteArray(SKY_LIGHT_LEN - 1, 5, 3))

SectionNbt(nblock, nbiome, kind, sky, k) ==
    [block_palette |-> nblock, biome_palette |-> nbiome,
     block_data |-> SectionData(kind).block_data,
     biome_data |-> SectionData(kind).biome_data,
     block_light |-> SectionData(kind).block_light,
     sky_light |-> SkyData(sky, k)]

NoResult == [status |-> "none"]

ParseInit ==
    /\ pcPc = "call"
    /\ pcResult = NoResult
    /\ pcChecks \in BOOLEAN
    /\ \/ \E nblock \in 0..MaxPalette, nbiome \in 0..MaxBiomePalette,
             kind \in 0..3, sky \in 0..1 :
            pcNbt = [deserializes |-> TRUE, fully_generated |-> TRUE,
                     sections |-> << SectionNbt(nblock, nbiome, kind, sky, 1) >>]
       \/ \E n \in 1..MaxSections :
            \E skies \in [1..n -> 0..2], full \in BOOLEAN, kind \in {0, 3} :
              pcNbt = [deserializes |-> TRUE, fully_generated |-> full,
                       sections |-> [k \in 1..n |-> SectionNbt(2, 1, kind, skies[k], k)]]
       \/ pcNbt = [deserializes |-> FALSE, fully_generated |-> FALSE, sections |-> << >>]

ParseIdle ==
    /\ pcPc = "idle" /\ pcResult = NoResult /\ pcChecks = FALSE
    /\ pcNbt = [deserializes |-> FALSE, fully_generated |-> FALSE, sections |-> << >>]

\* RawChunk::parse
Parse ==
    /\ pcPc = "call"
    /\ pcResult' = ParseChunk(pcNbt, pcChecks)
    /\ pcPc' = "returned"
    /\ UNCHANGED << pcNbt, pcChecks >>
    /\ UNCHANGED parseFrame

ParseNext == Parse

(***************************************************************************)
(* canvas/buffer.rs: ImageBuf                                              *)
(***************************************************************************)
BufInit ==
    /\ ibImage = None /\ ibRet = "none" /\ ibBufLen = -1 /\ ibAccess = "none"

BufIdle == BufInit

\* ImageBuf::from_raw(width, height, buf) for a pixel type of `ch` channels
from_raw_rejects(width, height, ch, buf_len) == width * height * ch < buf_len

from_raw(width, height, ch, buf) ==
    LET len == width * height * ch
    IN  IF from_raw_rejects(width, height, ch, Len(buf))
        THEN None
        ELSE Some([width |-> width, height |-> height, len |-> len,
                   channels |-> ch, data |-> buf])

\* ImageBuf::from_pixel(width, height, pixel)
from_pixel(width, height, pixel) ==
    LET count == width * height
        len == count * Len(pixel)
    IN  [width |-> width, height |-> height, len |-> len, channels |-> Len(pixel),
         data |-> [k \in 1..(count * Len(pixel)) |-> pixel[((k - 1) % Len(pixel)) + 1]]]

\* ImageBuf::channels: `&self.data.as_ref()[..self.len]` panics past the end
channels(img) == IF img.len > Len(img.data) THEN Panic ELSE Ok(SubSeq(img.data, 1, img.len))

\* ImageBuf::pixels: slice_from_channels asserts a whole number of pixels
pixels(img) ==
    LET c == channels(img)
    IN  IF ~c.ok THEN Panic
        ELSE IF Len(c.v) % img.channels # 0 THEN Panic
        ELSE Ok([p \in 1..(Len(c.v) \div img.channels) |->
                    SubSeq(c.v, (p - 1) * img.channels + 1, p * img.channels)])

FromRaw ==
    /\ ibRet = "none"
    /\ \E width \in 0..MaxDim, height \in 0..MaxDim, ch \in {3, 4}, n \in 0..MaxBuf :
        LET r == from_raw(width, height, ch, [k \in 1..n |-> 0])
        IN  /\ ibImage' = r
            /\ ibRet' = IF r.present THEN "Some" ELSE "None"
            /\ ibBufLen' = n
    /\ UNCHANGED ibAccess
    /\ UNCHANGED bufFrame

FromPixel ==
    /\ ibRet = "none"
    /\ \E width \in 0..MaxDim, height \in 0..MaxDim,
          pixel \in {<<1, 2, 3>>, <<1, 2, 3, 4>>} :
        /\ ibImage' = Some(from_pixel(width, height, pixel))
        /\ ibRet' = "Some"
    /\ UNCHANGED << ibBufLen, ibAccess >>
    /\ UNCHANGED bufFrame

CallChannels ==
    /\ ibImage.present /\ ibAccess # "panic"
    /\ ibAccess' = IF channels(ibImage.v).ok THEN "ok" ELSE "panic"
    /\ UNCHANGED << ibImage, ibRet, ibBufLen >>
    /\ UNCHANGED bufFrame

CallPixels ==
    /\ ibImage.present /\ ibAccess # "panic"
    /\ ibAccess' = IF pixels(ibImage.v).ok THEN "ok" ELSE "panic"
    /\ UNCHANGED << ibImage, ibRet, ibBufLen >>
    /\ UNCHANGED bufFrame

BufNext == FromRaw \/ FromPixel \/ CallChannels \/ CallPixels

(***************************************************************************)
(* world/mod.rs: Region                                                    *)
(***************************************************************************)
SECTOR_SIZE == 4096
REGION_CHUNK_COUNT == 1024
REGION_HEADER_SIZE == 2 * SECTOR_SIZE
COMPRESSION_METHOD_ZLIB == 2

\* a location record: offset_sectors in the upper 24 bits, sector_count below
Location(offset_sectors, sector_count) == offset_sectors * 256 + sector_count

\* the records a table is filled from: every offset up to one sector past the
\* end of the file, with a zero and a non-zero sector count
Locations == { Location(o, c) : o \in 0..(MaxSector + 1), c \in 0..1 }

\* the entries of the table that vary (the others are zero)
Slots == {0, 1, REGION_CHUNK_COUNT - 1}

\* a record whose top byte is the zlib method: the fifth byte of the file
ZlibTopByte == COMPRESSION_METHOD_ZLIB * 16777216 + 1

\* what can stand at the start of a data sector: compressed_size, the
\* compression method byte, and whether the bytes after it inflate
Payloads ==
    { [size |-> 5, method |-> COMPRESSION_METHOD_ZLIB, inflates |-> TRUE],
      [size |-> 5, method |-> COMPRESSION_METHOD_ZLIB, inflates |-> FALSE],
      [size |-> 5, method |-> 1, inflates |-> TRUE],
      [size |-> 0, method |-> COMPRESSION_METHOD_ZLIB, inflates |-> TRUE] }

\* the chunk header found at a byte offset of the file
\* (None: the read runs into the end of the file)
ChunkHeaderAt(file, offset) ==
    IF offset + 4 > file.sectors * SECTOR_SIZE THEN None
    ELSE IF offset = 0
    THEN \* the first bytes of the location table itself
         Some([size |-> file.table[0], method |-> file.table[1] \div 16777216,
               inflates |-> file.header_inflates])
    ELSE IF offset \div SECTOR_SIZE \in DOMAIN file.data
    THEN Some(file.data[offset \div SECTOR_SIZE])
    ELSE Some([size |-> 0, method |-> 0, inflates |-> FALSE])

NoCall == [index |-> -1, record |-> 0, seek |-> -1, reads |-> 0, result |-> "none"]

RegionInit ==
    /\ \E sectors \in {1, MaxSector + 1}, r0 \in Locations, r1 \in {0, ZlibTopByte},
          rl \in Locations, hi \in BOOLEAN, data \in [2..MaxSector -> Payloads] :
        rgFile = [sectors |-> sectors,
                  table |-> [i \in 0..(REGION_CHUNK_COUNT - 1) |->
                                IF i = 0 THEN r0
                                ELSE IF i = 1 THEN r1
                                ELSE IF i = REGION_CHUNK_COUNT - 1 THEN rl ELSE 0],
                  header_inflates |-> hi,
                  data |-> data]
    /\ rgChunks = <<>>
    /\ rgCall = NoCall
    /\ rgPc = "closed"

RegionIdle ==
    /\ rgFile = <<>> /\ rgChunks = <<>> /\ rgCall = NoCall /\ rgPc = "idle"

\* Region::from_stream
FromStream ==
    /\ rgPc = "closed"
    /\ IF rgFile.sectors * SECTOR_SIZE < REGION_HEADER_SIZE
       THEN rgPc' = "err" /\ UNCHANGED rgChunks
       ELSE /\ rgChunks' = [i \in 0..(REGION_CHUNK_COUNT - 1) |-> rgFile.table[i]]
            /\ rgPc' = "open"
    /\ UNCHANGED << rgFile, rgCall >>
    /\ UNCHANGED regionFrame

\* Region::get_raw_chunk_by_index(index)
get_raw_chunk_by_index(chunks, file, index) ==
    LET offset_count == chunks[index]
        offset == (offset_count \div 256) * SECTOR_SIZE
        header == ChunkHeaderAt(file, offset)
        call == [index |-> index, record |-> offset_count, seek |-> offset,
                 reads |-> 0, result |-> "err"]
    IN  IF offset_count = 0
        THEN [index |-> index, record |-> offset_count, seek |-> -1, reads |-> 0,
              result |-> "absent"]
        ELSE IF ~header.present
        THEN call                                       \* read_u32 fails
        ELSE IF header.v.size = 0
        THEN [call EXCEPT !.reads = 4]                  \* read_u8 of an empty Take
        ELSE IF header.v.method # COMPRESSION_METHOD_ZLIB
        THEN [call EXCEPT !.reads = 5]
        ELSE IF ~header.v.inflates
        THEN [call EXCEPT !.reads = 4 + header.v.size]
        ELSE [call EXCEPT !.reads = 4 + header.v.size, !.result = "chunk"]

GetRawChunkByIndex ==
    /\ rgPc = "open"
    /\ \E index \in Slots \cup {5} :
        rgCall' = get_raw_chunk_by_index(rgChunks, rgFile, index)
    /\ UNCHANGED << rgFile, rgChunks, rgPc >>
    /\ UNCHANGED regionFrame

RegionNext == FromStream \/ GetRawChunkByIndex

(***************************************************************************)
(* render/mod.rs: DimensionRenderer::render_map_column, with the           *)
(* ChunkCache of world/cache.rs and DimensionInfo of world/mod.rs          *)
(***************************************************************************)
SPRITE_SIZE == 24
REGION_SIZE == 32
WORLD_HEIGHT == 384
CHUNK_CACHE_CAPACITY == 100

render_width(x, z) == (x + z) * (SPRITE_SIZE \div 2)

\* a variant that counts a whole sprite height per block of height
render_height_WholeSprite(x, z, y) == (x + z) * (SPRITE_SIZE \div 4) + y * SPRITE_SIZE

render_height(x, z, y) == (x + z) * (SPRITE_SIZE \div 4) + y * (SPRITE_SIZE \div 2)

SECTION_RENDER_WIDTH == render_width(CHUNK_SIZE, CHUNK_SIZE)
SECTION_RENDER_HEIGHT == render_height(CHUNK_SIZE, CHUNK_SIZE, CHUNK_SIZE)
CHUNK_RENDER_WIDTH == SECTION_RENDER_WIDTH
CHUNK_RENDER_HEIGHT == render_height(CHUNK_SIZE, CHUNK_SIZE, WORLD_HEIGHT)

CHUNK_OFFSET_X == << SECTION_RENDER_WIDTH \div 2, SECTION_RENDER_HEIGHT \div 4 >>
CHUNK_OFFSET_Z == << -(SECTION_RENDER_WIDTH \div 2), SECTION_RENDER_HEIGHT \div 4 >>

TILE_BUFFER_WIDTH == CHUNK_RENDER_WIDTH
TILE_BUFFER_HEIGHT == CHUNK_RENDER_HEIGHT + 3 * (SECTION_RENDER_HEIGHT \div 4)
TILE_BUFFER_SPLIT_PIXELS == TILE_BUFFER_WIDTH * SECTION_RENDER_HEIGHT
TILE_BUFFER_SPLIT_CHANNELS == TILE_BUFFER_SPLIT_PIXELS * 4

\* a variant whose last offset is one tile anchor step (2, 2) from the first
TILE_RENDER_CHUNK_OFFSETS_Overlapping ==
    << <<0, 0>>, <<1, 0>>, <<0, 1>>, <<1, 1>>, <<2, 1>>, <<2, 2>> >>

TILE_RENDER_CHUNK_OFFSETS ==
    << <<0, 0>>, <<1, 0>>, <<0, 1>>, <<1, 1>>, <<2, 1>>, <<1, 2>> >>

\* i32 `/`: the quotient rounded towards zero
TruncDiv(a, b) == IF a >= 0 THEN a \div b ELSE -((-a) \div b)

\* CCoords::south, CCoords::east, CCoords::to_region_coords (div_euclid)
south(c) == << c[1], c[2] + 1 >>
east(c) == << c[1] + 1, c[2] >>
to_region_coords(c) == << c[1] \div REGION_SIZE, c[2] \div REGION_SIZE >>
\* RCoords::to_chunk_coords
to_chunk_coords(r) == << r[1] * REGION_SIZE, r[2] * REGION_SIZE >>

SetMin(S) == CHOOSE a \in S : \A b \in S : a <= b
SetMax(S) == CHOOSE a \in S : \A b \in S : a >= b

\* DimensionInfo::min_region_coords / max_region_coords
min_region_coords(regions) ==
    << SetMin({r[1] : r \in regions}), SetMin({r[2] : r \in regions}) >>
max_region_coords(regions) ==
    << 1 + SetMax({r[1] : r \in regions}), 1 + SetMax({r[2] : r \in regions}) >>

\* DimensionRenderer::new: row_range and col_range
min_row(regions) ==
    LET c == to_chunk_coords(min_region_coords(regions)) IN TruncDiv(c[1] + c[2], 4)
\* a variant that stops at the last row that chunks are rendered for
max_row_LastAnchor(regions) ==
    LET c == to_chunk_coords(max_region_coords(regions))
    IN  TruncDiv(c[1] + c[2], 4)
max_row(regions) ==
    LET c == to_chunk_coords(max_region_coords(regions))
    IN  TruncDiv(c[1] + c[2], 4) + (CHUNK_RENDER_HEIGHT \div SECTION_RENDER_HEIGHT)
min_col(regions) ==
    TruncDiv(to_chunk_coords(min_region_coords(regions))[1]
             - to_chunk_coords(max_region_coords(regions))[2], 2)
max_col(regions) ==
    TruncDiv(to_chunk_coords(max_region_coords(regions))[1]
             - to_chunk_coords(min_region_coords(regions))[2], 2)

\* enum ChunkBounds
Unbounded == [minmax |-> FALSE, min |-> <<0, 0>>, max |-> <<0, 0>>]
MinMax(min, max) == [minmax |-> TRUE, min |-> min, max |-> max]

\* a variant whose ranges include their upper end
contains_Inclusive(bounds, c) ==
    \/ ~bounds.minmax
    \/ /\ bounds.min[1] <= c[1] /\ c[1] <= bounds.max[1]
       /\ bounds.min[2] <= c[2] /\ c[2] <= bounds.max[2]

\* ChunkBounds::contains
contains(bounds, c) ==
    \/ ~bounds.minmax
    \/ /\ bounds.min[1] <= c[1] /\ c[1] < bounds.max[1]
       /\ bounds.min[2] <= c[2] /\ c[2] < bounds.max[2]

\* ChunkBounds::single_region
single_region(r) ==
    MinMax(to_chunk_coords(r),
           << to_chunk_coords(r)[1] + REGION_SIZE, to_chunk_coords(r)[2] + REGION_SIZE >>)

\* a chunk as the renderer sees it: how many sections it has, whether it is
\* fully generated, and whether every block of it has a sprite (renders)
FullChunk == [sections |-> WORLD_HEIGHT \div CHUNK_SIZE, fully_generated |-> TRUE,
              renders |-> TRUE]

\* what the region files hold at a chunk coordinate, by the layout of the
\* world: None when there is no region, no chunk data, or data that does not
\* read or parse
StoredChunk(world, c) ==
    LET lx == c[1] % REGION_SIZE
        lz == c[2] % REGION_SIZE
    IN  IF to_region_coords(c) \notin world.regions THEN None
        ELSE IF world.layout = "full" THEN Some(FullChunk)
        ELSE IF world.layout = "single"
        THEN IF lx = 0 /\ lz = 0 THEN Some(FullChunk) ELSE None
        ELSE IF world.layout = "mixed"
        THEN IF (lx + lz) % 4 = 3 THEN None
             ELSE IF lx % 5 = 2 THEN Some([FullChunk EXCEPT !.fully_generated = FALSE])
             ELSE Some(FullChunk)
        ELSE IF world.layout = "ragged"
        THEN IF lx % 8 = 5 /\ lz > 20
             THEN Some([FullChunk EXCEPT !.sections = FullChunk.sections - 1])
             ELSE Some(FullChunk)
        ELSE \* "unrenderable": a block of a chunk has no sprite
             IF lx = 9 /\ lz = 30
             THEN Some([FullChunk EXCEPT !.renders = FALSE])
             ELSE Some(FullChunk)

\* the closure of ChunkCache::get: get_raw_chunk, parse, filter fully_generated
LoadChunk(world, c) ==
    LET stored == StoredChunk(world, c)
    IN  IF stored.present /\ stored.v.fully_generated THEN stored ELSE None

\* ChunkCache::get on the cache `cache` (entries most recently used first)
ChunkCacheGet(world, cache, c) ==
    IF ~contains(world.bounds, c)
    THEN [cache |-> cache, chunk |-> None, loads |-> 0]
    ELSE IF \E i \in 1..Len(cache) : cache[i].key = c
    THEN LET i == CHOOSE i \in 1..Len(cache) : cache[i].key = c
         IN  [cache |-> << cache[i] >> \o SubSeq(cache, 1, i - 1)
                          \o SubSeq(cache, i + 1, Len(cache)),
              chunk |-> cache[i].chunk, loads |-> 0]
    ELSE LET chunk == LoadChunk(world, c)
             kept == IF Len(cache) >= CHUNK_CACHE_CAPACITY
                     THEN SubSeq(cache, 1, CHUNK_CACHE_CAPACITY - 1)
                     ELSE cache
         IN  [cache |-> << [key |-> c, chunk |-> chunk] >> \o kept,
              chunk |-> chunk, loads |-> 1]

\* ChunkContext::iter_sections indexes the neighbour's sections with the
\* chunk's own section indices
IterSectionsPanics(chunk, neighbour) ==
    neighbour.present /\ neighbour.v.sections < chunk.sections

\* Renderer::render_chunk_context_at into the tile buffer at (x, y): the runs
\* of pixel rows drawn on, each << first row, last row >>. Section i is drawn
\* at y + y_offset; the sprites of a section full of blocks span the
\* SECTION_RENDER_HEIGHT rows from there, and rows outside the buffer are
\* clipped
render_chunk_context_at(chunk, y) ==
    LET y_offset(i) == CHUNK_RENDER_HEIGHT - SECTION_RENDER_HEIGHT
                       - ((i * SECTION_RENDER_HEIGHT) \div 2)
        first(i) == IF y + y_offset(i) < 0 THEN 0 ELSE y + y_offset(i)
        last(i) == IF y + y_offset(i) + SECTION_RENDER_HEIGHT > TILE_BUFFER_HEIGHT
                   THEN TILE_BUFFER_HEIGHT - 1
                   ELSE y + y_offset(i) + SECTION_RENDER_HEIGHT - 1
    IN  { << first(i), last(i) >> : i \in { j \in 0..(chunk.sections - 1) :
                                             first(j) <= last(j) } }

\* the runs that reach into the top rows of the buffer, which make the tile
\* handed to the sink
TileRows(buffer) == { run \in buffer : run[1] < SECTION_RENDER_HEIGHT }

\* a variant that moves the buffer up by the vertical step between chunks
ShiftUp_ChunkStep(buffer) ==
    { << IF run[1] < CHUNK_OFFSET_X[2] THEN 0 ELSE run[1] - CHUNK_OFFSET_X[2],
         run[2] - CHUNK_OFFSET_X[2] >> :
      run \in { q \in buffer : q[2] >= CHUNK_OFFSET_X[2] } }

\* copy_within(TILE_BUFFER_SPLIT_CHANNELS.., 0) moves every row from the
\* split on to the top; the fill puts the background in the rows left behind
ShiftUp(buffer) ==
    LET split == TILE_BUFFER_SPLIT_CHANNELS \div (TILE_BUFFER_WIDTH * 4)
    IN  { << IF run[1] < split THEN 0 ELSE run[1] - split, run[2] - split >> :
          run \in { q \in buffer : q[2] >= split } }

\* the body of `for offset in TILE_RENDER_CHUNK_OFFSETS` from offset k on;
\* st is [cache, loads, rendered, buffer, status]
RECURSIVE RenderOffsets(_, _, _, _, _)
RenderOffsets(st, world, row, anchor, k) ==
    IF k > Len(TILE_RENDER_CHUNK_OFFSETS) \/ st.status # "walk" THEN st
    ELSE
        LET offset == TILE_RENDER_CHUNK_OFFSETS[k]
            image_offset == << CHUNK_OFFSET_X[1] * offset[1] + CHUNK_OFFSET_Z[1] * offset[2],
                               CHUNK_OFFSET_X[2] * offset[1] + CHUNK_OFFSET_Z[2] * offset[2] >>
            coords == << anchor[1] + offset[1], anchor[2] + offset[2] >>
            g == ChunkCacheGet(world, st.cache, coords)
            gs == ChunkCacheGet(world, g.cache, south(coords))
            ge == ChunkCacheGet(world, gs.cache, east(coords))
        IN  IF ~g.chunk.present
            THEN RenderOffsets([st EXCEPT !.cache = g.cache, !.loads = @ + g.loads],
                               world, row, anchor, k + 1)
            ELSE
                LET got == [st EXCEPT !.cache = ge.cache,
                                      !.loads = @ + g.loads + gs.loads + ge.loads]
                IN  IF \/ IterSectionsPanics(g.chunk.v, gs.chunk)
                       \/ IterSectionsPanics(g.chunk.v, ge.chunk)
                    THEN [got EXCEPT !.status = "panic"]
                    ELSE IF ~g.chunk.v.renders
                    THEN [got EXCEPT !.status = "err"]
                    ELSE RenderOffsets(
                            [got EXCEPT !.rendered = Append(@,
                                [coords |-> coords, row |-> row,
                                 image_offset |-> image_offset]),
                                        !.buffer = @ \cup render_chunk_context_at(
                                            g.chunk.v, image_offset[2])],
                            world, row, anchor, k + 1)

\* a variant without the `break`
AfterSink_NoBreak(keep_rendering, row, last_row) ==
    IF row = last_row THEN "ok" ELSE "walk"

\* what the loop does with the sink's answer: break, or go on to the next row
AfterSink(keep_rendering, row, last_row) ==
    IF ~keep_rendering THEN "ok"
    ELSE IF row = last_row THEN "ok" ELSE "walk"

Layouts == {"full", "single", "mixed", "ragged", "unrenderable"}

Worlds ==
    { [regions |-> {<<0, 0>>}, layout |-> l, bounds |-> Unbounded] : l \in Layouts }
    \cup { [regions |-> {<<-1, -1>>, <<0, -1>>}, layout |-> "mixed", bounds |-> Unbounded],
           [regions |-> {<<-1, -1>>}, layout |-> "full", bounds |-> Unbounded],
           [regions |-> {<<-1, -1>>, <<0, -1>>}, layout |-> "full",
            bounds |-> single_region(<<-1, -1>>)],
           [regions |-> {<<0, 0>>}, layout |-> "full",
            bounds |-> MinMax(<<3, 3>>, <<9, 8>>)] }

WalkInit ==
    /\ drWorld \in Worlds
    /\ drCol \in min_col(drWorld.regions)..max_col(drWorld.regions)
    /\ drRow = min_row(drWorld.regions)
    /\ drCache = <<>>
    /\ drLoads = 0
    /\ drRendered = <<>>
    /\ drSink = <<>>
    /\ drBuffer = {}
    /\ drPc = "walk"

WalkIdle ==
    /\ drWorld = <<>> /\ drCol = 0 /\ drRow = 0 /\ drCache = <<>> /\ drLoads = 0
    /\ drRendered = <<>> /\ drSink = <<>> /\ drBuffer = {} /\ drPc = "idle"

\* one iteration of `for row in self.row_range()`; the sink's answer is an input
RenderRow ==
    /\ drPc = "walk"
    /\ LET anchor == << 2 * drRow + drCol, 2 * drRow - drCol >>
           st == RenderOffsets([cache |-> drCache, loads |-> drLoads,
                                rendered |-> drRendered, buffer |-> drBuffer,
                                status |-> "walk"],
                               drWorld, drRow, anchor, 1)
       IN  /\ drCache' = st.cache
           /\ drLoads' = st.loads
           /\ drRendered' = st.rendered
           /\ IF st.status # "walk"
              THEN /\ drPc' = st.status /\ drBuffer' = st.buffer
                   /\ UNCHANGED << drSink, drRow >>
              ELSE IF from_raw_rejects(TILE_BUFFER_WIDTH, SECTION_RENDER_HEIGHT, 4,
                                       TILE_BUFFER_SPLIT_CHANNELS)
              THEN /\ drPc' = "panic" /\ drBuffer' = st.buffer
                   /\ UNCHANGED << drSink, drRow >>
              ELSE \E keep_rendering \in BOOLEAN :
                    /\ drSink' = Append(drSink,
                           [row |-> drRow, content |-> TileRows(st.buffer) # {},
                            keep |-> keep_rendering])
                    /\ drBuffer' = IF keep_rendering THEN ShiftUp(st.buffer)
                                   ELSE st.buffer
                    /\ drPc' = AfterSink(keep_rendering, drRow, max_row(drWorld.regions))
                    /\ drRow' = IF drPc' = "walk" THEN drRow + 1 ELSE drRow
    /\ UNCHANGED << drWorld, drCol >>
    /\ UNCHANGED walkFrame

WalkNext == RenderRow

(***************************************************************************)
(* render/texture.rs: TextureCache::get                                    *)
(* render/sprite.rs: PartialSpriteCache::get_tinted                        *)
(* Every lock acquisition, the work done between the locks, and every      *)
(* critical section is a step of the calling thread.                       *)
(***************************************************************************)
SpThreads == 1..SpriteThreads

\* texture names: one with a readable PNG, one without
TextureNames == {"stone", "missing"}
TextureLoads(name) == name # "missing"

\* the sprite keys the calls use
SpriteKeys == { <<"stone", "BlockTop", "none">>, <<"stone", "BlockTop", "green">>,
                <<"missing", "BlockTop", "none">> }

NoLock == [readers |-> {}, writer |-> 0]

NoThread == [pc |-> "idle", calls |-> 0, op |-> "none", key |-> << >>, texture |-> 0,
             buffer |-> 0, status |-> "none", result |-> 0]

NoStats == [loaded |-> [n \in TextureNames |-> 0],
            computed |-> [k \in SpriteKeys |-> 0],
            tx_inserted |-> [n \in TextureNames |-> 0],
            sp_inserted |-> [k \in SpriteKeys |-> 0]]

SpriteInit ==
    /\ txCache = [n \in TextureNames |-> 0]
    /\ txLock = NoLock
    /\ spCache = [k \in SpriteKeys |-> 0]
    /\ spLock = NoLock
    /\ objects = << >>
    /\ thr = [t \in SpThreads |-> NoThread]
    /\ spStats = NoStats

SpriteIdle ==
    /\ txCache = << >> /\ txLock = NoLock /\ spCache = << >> /\ spLock = NoLock
    /\ objects = << >> /\ thr = << >> /\ spStats = NoStats

\* the calls made so far by threads 1..n
RECURSIVE CallsMade(_, _)
CallsMade(threads, n) == IF n = 0 THEN 0 ELSE threads[n].calls + CallsMade(threads, n - 1)

\* RwLock::read / RwLock::write can be taken
CanRead(lock) == lock.writer = 0
CanWrite(lock) == lock.writer = 0 /\ lock.readers = {}

\* where a thread goes when TextureCache::get has returned Ok
AfterTexture(op) == IF op = "get_tinted" THEN "sp_compute" ELSE "done"

\* a thread calls PartialSpriteCache::get_tinted(name, aspect, tint)
CallGetTinted(t) ==
    /\ thr[t].pc \in {"idle", "done"} /\ CallsMade(thr, SpriteThreads) < SpriteCalls
    /\ \E key \in SpriteKeys :
        thr' = [thr EXCEPT ![t] = [NoThread EXCEPT !.pc = "sp_read_lock",
                                                   !.calls = thr[t].calls + 1,
                                                   !.op = "get_tinted", !.key = key]]
    /\ UNCHANGED << txCache, txLock, spCache, spLock, objects, spStats >>
    /\ UNCHANGED spriteFrame

\* a thread calls TextureCache::get(name)
CallTextureGet(t) ==
    /\ thr[t].pc \in {"idle", "done"} /\ CallsMade(thr, SpriteThreads) < SpriteCalls
    /\ \E name \in TextureNames :
        thr' = [thr EXCEPT ![t] = [NoThread EXCEPT !.pc = "tx_read_lock",
                                                   !.calls = thr[t].calls + 1,
                                                   !.op = "texture_get", !.key = << name >>]]
    /\ UNCHANGED << txCache, txLock, spCache, spLock, objects, spStats >>
    /\ UNCHANGED spriteFrame

\* get_tinted: self.cache.read()
SpReadLock(t) ==
    /\ thr[t].pc = "sp_read_lock"
    /\ CanRead(spLock)
    /\ spLock' = [spLock EXCEPT !.readers = @ \cup {t}]
    /\ thr' = [thr EXCEPT ![t].pc = "sp_read"]
    /\ UNCHANGED << txCache, txLock, spCache, objects, spStats >>
    /\ UNCHANGED spriteFrame

\* get_tinted: the lookup under the read guard; the guard is dropped at the
\* end of the `if let`
SpRead(t) ==
    /\ thr[t].pc = "sp_read"
    /\ spLock' = [spLock EXCEPT !.readers = @ \ {t}]
    /\ thr' = IF spCache[thr[t].key] # 0
              THEN [thr EXCEPT ![t].pc = "done", ![t].status = "ok",
                               ![t].result = spCache[thr[t].key]]
              ELSE [thr EXCEPT ![t].pc = "tx_read_lock"]
    /\ UNCHANGED << txCache, txLock, spCache, objects, spStats >>
    /\ UNCHANGED spriteFrame

\* TextureCache::get: self.cache.read()
TxReadLock(t) ==
    /\ thr[t].pc = "tx_read_lock"
    /\ CanRead(txLock)
    /\ txLock' = [txLock EXCEPT !.readers = @ \cup {t}]
    /\ thr' = [thr EXCEPT ![t].pc = "tx_read"]
    /\ UNCHANGED << txCache, spCache, spLock, objects, spStats >>
    /\ UNCHANGED spriteFrame

\* TextureCache::get: the lookup under the read guard
TxRead(t) ==
    /\ thr[t].pc = "tx_read"
    /\ txLock' = [txLock EXCEPT !.readers = @ \ {t}]
    /\ LET name == thr[t].key[1]
       IN  thr' = IF txCache[name] # 0
                  THEN [thr EXCEPT ![t].pc = AfterTexture(thr[t].op),
                                   ![t].texture = txCache[name],
                                   ![t].status = IF thr[t].op = "texture_get"
                                                 THEN "ok" ELSE @,
                                   ![t].result = IF thr[t].op = "texture_get"
                                                 THEN txCache[name] ELSE @]
                  ELSE [thr EXCEPT ![t].pc = "tx_load"]
    /\ UNCHANGED << txCache, spCache, spLock, objects, spStats >>
    /\ UNCHANGED spriteFrame

\* TextureCache::get: image::open(..)?.to_rgba8() and the 16 x 16 view, with
\* no lock held; `?` returns the error
TxLoad(t) ==
    /\ thr[t].pc = "tx_load"
    /\ LET name == thr[t].key[1]
       IN  IF TextureLoads(name)
           THEN /\ objects' = Append(objects, << name >>)
                /\ thr' = [thr EXCEPT ![t].pc = "tx_write_lock",
                                      ![t].texture = Len(objects) + 1]
                /\ spStats' = [spStats EXCEPT !.loaded[name] = @ + 1]
           ELSE /\ thr' = [thr EXCEPT ![t].pc = "done", ![t].status = "err"]
                /\ UNCHANGED << objects, spStats >>
    /\ UNCHANGED << txCache, txLock, spCache, spLock >>
    /\ UNCHANGED spriteFrame

\* TextureCache::get: self.cache.write()
TxWriteLock(t) ==
    /\ thr[t].pc = "tx_write_lock"
    /\ CanWrite(txLock)
    /\ txLock' = [txLock EXCEPT !.writer = t]
    /\ thr' = [thr EXCEPT ![t].pc = "tx_write"]
    /\ UNCHANGED << txCache, spCache, spLock, objects, spStats >>
    /\ UNCHANGED spriteFrame

\* a variant that never finds the entry another thread has inserted
TxEntryToReuse_Never(cache, name) == FALSE

\* the re-check under the write lock: is there an entry to reuse?
TxEntryToReuse(cache, name) == cache[name] # 0

\* TextureCache::get: re-check under the write lock, insert or reuse
TxWrite(t) ==
    /\ thr[t].pc = "tx_write"
    /\ LET name == thr[t].key[1]
           image == IF TxEntryToReuse(txCache, name) THEN txCache[name] ELSE thr[t].texture
       IN  /\ txCache' = IF TxEntryToReuse(txCache, name) THEN txCache
                         ELSE [txCache EXCEPT ![name] = thr[t].texture]
           /\ spStats' = IF TxEntryToReuse(txCache, name) THEN spStats
                         ELSE [spStats EXCEPT !.tx_inserted[name] = @ + 1]
           /\ thr' = [thr EXCEPT ![t].pc = AfterTexture(thr[t].op),
                                 ![t].texture = image,
                                 ![t].status = IF thr[t].op = "texture_get" THEN "ok" ELSE @,
                                 ![t].result = IF thr[t].op = "texture_get" THEN image ELSE @]
    /\ txLock' = [txLock EXCEPT !.writer = 0]
    /\ UNCHANGED << spCache, spLock, objects >>
    /\ UNCHANGED spriteFrame

\* get_tinted: render_aspect and the tint, with no lock held
SpCompute(t) ==
    /\ thr[t].pc = "sp_compute"
    /\ objects' = Append(objects, thr[t].key)
    /\ thr' = [thr EXCEPT ![t].pc = "sp_write_lock", ![t].buffer = Len(objects) + 1]
    /\ spStats' = [spStats EXCEPT !.computed[thr[t].key] = @ + 1]
    /\ UNCHANGED << txCache, txLock, spCache, spLock >>
    /\ UNCHANGED spriteFrame

\* get_tinted: self.cache.write()
SpWriteLock(t) ==
    /\ thr[t].pc = "sp_write_lock"
    /\ CanWrite(spLock)
    /\ spLock' = [spLock EXCEPT !.writer = t]
    /\ thr' = [thr EXCEPT ![t].pc = "sp_write"]
    /\ UNCHANGED << txCache, txLock, spCache, objects, spStats >>
    /\ UNCHANGED spriteFrame

\* a variant that never finds the entry another thread has inserted
SpEntryToReuse_Never(cache, key) == FALSE

\* the re-check under the write lock: is there an entry to reuse?
SpEntryToReuse(cache, key) == cache[key] # 0

\* get_tinted: re-check under the write lock, insert or reuse
SpWrite(t) ==
    /\ thr[t].pc = "sp_write"
    /\ LET key == thr[t].key
           image == IF SpEntryToReuse(spCache, key) THEN spCache[key] ELSE thr[t].buffer
       IN  /\ spCache' = IF SpEntryToReuse(spCache, key) THEN spCache
                         ELSE [spCache EXCEPT ![key] = thr[t].buffer]
           /\ spStats' = IF SpEntryToReuse(spCache, key) THEN spStats
                         ELSE [spStats EXCEPT !.sp_inserted[key] = @ + 1]
           /\ thr' = [thr EXCEPT ![t].pc = "done", ![t].status = "ok", ![t].result = image]
    /\ spLock' = [spLock EXCEPT !.writer = 0]
    /\ UNCHANGED << txCache, txLock, objects >>
    /\ UNCHANGED spriteFrame

SpriteNext ==
    \E t \in SpThreads :
        \/ CallGetTinted(t) \/ CallTextureGet(t)
        \/ SpReadLock(t) \/ SpRead(t)
        \/ TxReadLock(t) \/ TxRead(t) \/ TxLoad(t) \/ TxWriteLock(t) \/ TxWrite(t)
        \/ SpCompute(t) \/ SpWriteLock(t) \/ SpWrite(t)

(***************************************************************************)
(* asset.rs: AssetCache::get_or_create_asset and AssetCache::get_texture   *)
(***************************************************************************)
AcThreads == 1..AssetThreads

\* the asset keys of the calls, by what their creation function meets:
\* "stone" has a texture, "water" needs none, the texture of "missing" does
\* not open, the texture of "tiny" is smaller than the 16 x 16 view taken
AssetKeys == {"stone", "water", "missing", "tiny"}
AssetTextures == {"stone", "missing", "tiny"}

FreeMutex == [holder |-> 0, poisoned |-> FALSE]

AcNoThread == [pc |-> "idle", calls |-> 0, op |-> "none", key |-> "", status |-> "none",
               result |-> 0]

AssetInit ==
    /\ acAssets = [k \in AssetKeys |-> [present |-> FALSE, value |-> 0]]
    /\ acTextures = [n \in AssetTextures |-> 0]
    /\ acMutex = FreeMutex
    /\ acTexMutex = FreeMutex
    /\ acObjects = 0
    /\ acThr = [t \in AcThreads |-> AcNoThread]
    /\ acCreated = [k \in AssetKeys |-> 0]

AssetIdle ==
    /\ acAssets = << >> /\ acTextures = << >> /\ acMutex = FreeMutex
    /\ acTexMutex = FreeMutex /\ acObjects = 0 /\ acThr = << >> /\ acCreated = << >>

\* a variant of the lock that excludes nobody
CanLock_NoExclusion(mutex) == TRUE

\* Mutex::lock returns when no thread holds the mutex
CanLock(mutex) == mutex.holder = 0

\* a thread calls get_asset, which calls get_or_create_asset(info, f)
CallGetAsset(t) ==
    /\ acThr[t].pc \in {"idle", "done"} /\ CallsMade(acThr, AssetThreads) < AssetCalls
    /\ \E key \in AssetKeys :
        acThr' = [acThr EXCEPT ![t] = [AcNoThread EXCEPT !.pc = "a_lock",
                                                         !.calls = acThr[t].calls + 1,
                                                         !.op = "get_asset", !.key = key]]
    /\ UNCHANGED << acAssets, acTextures, acMutex, acTexMutex, acObjects, acCreated >>
    /\ UNCHANGED assetFrame

\* a thread calls get_texture(path)
CallGetTexture(t) ==
    /\ acThr[t].pc \in {"idle", "done"} /\ CallsMade(acThr, AssetThreads) < AssetCalls
    /\ \E name \in AssetTextures :
        acThr' = [acThr EXCEPT ![t] = [AcNoThread EXCEPT !.pc = "t_lock",
                                                         !.calls = acThr[t].calls + 1,
                                                         !.op = "get_texture", !.key = name]]
    /\ UNCHANGED << acAssets, acTextures, acMutex, acTexMutex, acObjects, acCreated >>
    /\ UNCHANGED assetFrame

\* get_or_create_asset: self.assets.lock().unwrap()
AssetLock(t) ==
    /\ acThr[t].pc = "a_lock"
    /\ CanLock(acMutex)
    /\ IF acMutex.poisoned
       THEN acThr' = [acThr EXCEPT ![t].pc = "panicked"] /\ UNCHANGED acMutex
       ELSE acThr' = [acThr EXCEPT ![t].pc = "a_lookup"]
            /\ acMutex' = [acMutex EXCEPT !.holder = t]
    /\ UNCHANGED << acAssets, acTextures, acTexMutex, acObjects, acCreated >>
    /\ UNCHANGED assetFrame

\* get_or_create_asset: assets.get(&info); a cached entry is returned
AssetLookup(t) ==
    /\ acThr[t].pc = "a_lookup"
    /\ IF acAssets[acThr[t].key].present
       THEN /\ acThr' = [acThr EXCEPT ![t].pc = "done", ![t].status = "returned",
                                      ![t].result = acAssets[acThr[t].key].value]
            /\ acMutex' = [acMutex EXCEPT !.holder = 0]
       ELSE /\ acThr' = [acThr EXCEPT ![t].pc = "a_create"]
            /\ UNCHANGED acMutex
    /\ UNCHANGED << acAssets, acTextures, acTexMutex, acObjects, acCreated >>
    /\ UNCHANGED assetFrame

\* get_or_create_asset: f(&info) starts, with the assets mutex held; it runs
\* to its get_block_texture call, or to its end when it needs no texture
AssetCreate(t) ==
    /\ acThr[t].pc = "a_create"
    /\ acCreated' = [acCreated EXCEPT ![acThr[t].key] = @ + 1]
    /\ acThr' = [acThr EXCEPT ![t].pc = IF acThr[t].key \in AssetTextures
                                        THEN "t_lock" ELSE "a_insert",
                              ![t].status = "created"]
    /\ UNCHANGED << acAssets, acTextures, acMutex, acTexMutex, acObjects >>
    /\ UNCHANGED assetFrame

\* the mutexes a panicking thread holds are released poisoned
Unwind(mutex, t) ==
    IF mutex.holder = t THEN [holder |-> 0, poisoned |-> TRUE] ELSE mutex

\* get_texture: self.textures.lock().unwrap()
TextureLock(t) ==
    /\ acThr[t].pc = "t_lock"
    /\ CanLock(acTexMutex)
    /\ IF acTexMutex.poisoned
       THEN /\ acThr' = [acThr EXCEPT ![t].pc = "panicked"]
            /\ acMutex' = Unwind(acMutex, t)
            /\ UNCHANGED acTexMutex
       ELSE /\ acThr' = [acThr EXCEPT ![t].pc = "t_load"]
            /\ acTexMutex' = [acTexMutex EXCEPT !.holder = t]
            /\ UNCHANGED acMutex
    /\ UNCHANGED << acAssets, acTextures, acObjects, acCreated >>
    /\ UNCHANGED assetFrame

\* get_texture under the textures mutex: load and insert the texture when it
\* is not there, return a clone of the entry; `?` returns the error of
\* image::open, and the view of a texture smaller than 16 x 16 panics
TextureLoad(t) ==
    /\ acThr[t].pc = "t_load"
    /\ LET name == acThr[t].key
           cached == acTextures[name] # 0
           asset_call == acThr[t].op = "get_asset"
       IN  IF ~cached /\ name = "tiny"
           THEN /\ acThr' = [acThr EXCEPT ![t].pc = "panicked"]
                /\ acTexMutex' = Unwind(acTexMutex, t)
                /\ acMutex' = Unwind(acMutex, t)
                /\ UNCHANGED << acTextures, acObjects >>
           ELSE IF ~cached /\ name = "missing"
           THEN /\ acThr' = [acThr EXCEPT ![t].pc = IF asset_call THEN "a_insert" ELSE "done",
                                          ![t].status = "err"]
                /\ acTexMutex' = [acTexMutex EXCEPT !.holder = 0]
                /\ UNCHANGED << acTextures, acObjects, acMutex >>
           ELSE /\ acTextures' = IF cached THEN acTextures
                                 ELSE [acTextures EXCEPT ![name] = acObjects + 1]
                /\ acObjects' = IF cached THEN acObjects ELSE acObjects + 1
                /\ acThr' = [acThr EXCEPT ![t].pc = IF asset_call THEN "a_insert" ELSE "done",
                                          ![t].status = IF asset_call THEN @ ELSE "returned",
                                          ![t].result = IF asset_call THEN @
                                                        ELSE acTextures'[name]]
                /\ acTexMutex' = [acTexMutex EXCEPT !.holder = 0]
                /\ UNCHANGED acMutex
    /\ UNCHANGED << acAssets, acCreated >>
    /\ UNCHANGED assetFrame

\* get_or_create_asset: the match on what f returned; the entry is inserted
\* (None for an error), the assets mutex released, the entry's value returned
AssetInsert(t) ==
    /\ acThr[t].pc = "a_insert"
    /\ LET value == IF acThr[t].status = "err" THEN 0 ELSE acObjects + 1
       IN  /\ acAssets' = [acAssets EXCEPT ![acThr[t].key] =
                                [present |-> TRUE, value |-> value]]
           /\ acObjects' = IF value = 0 THEN acObjects ELSE acObjects + 1
           /\ acThr' = [acThr EXCEPT ![t].pc = "done", ![t].status = "returned",
                                     ![t].result = value]
    /\ acMutex' = [acMutex EXCEPT !.holder = 0]
    /\ UNCHANGED << acTextures, acTexMutex, acCreated >>
    /\ UNCHANGED assetFrame

AssetNext ==
    \E t \in AcThreads :
        \/ CallGetAsset(t) \/ CallGetTexture(t)
        \/ AssetLock(t) \/ AssetLookup(t) \/ AssetCreate(t)
        \/ TextureLock(t) \/ TextureLoad(t) \/ AssetInsert(t)

(***************************************************************************)
(* util.rs: Interner::get and intern_str                                   *)
(***************************************************************************)
InThreads == 1..InternThreads

\* the strings interned
InternStrings == {"minecraft:stone", "minecraft:air"}

InNoThread == [pc |-> "idle", calls |-> 0, key |-> "", via |-> "none", result |-> 0]

InternInit ==
    /\ inReady = FALSE
    /\ inMap = [s \in InternStrings |-> 0]
    /\ inLock = NoLock
    /\ inAllocs = << >>
    /\ inThr = [t \in InThreads |-> InNoThread]
    /\ inReturned = {}
    /\ inInserted = [s \in InternStrings |-> 0]

InternIdle ==
    /\ inReady = FALSE /\ inMap = << >> /\ inLock = NoLock /\ inAllocs = << >>
    /\ inThr = << >> /\ inReturned = {} /\ inInserted = << >>

\* HashMap::get_key_value(key): the stored key, if any
get_key_value(map, key) == IF map[key] # 0 THEN Some(map[key]) ELSE None

\* HashMap::insert(k, ()): an entry whose key is already there keeps its key
insert(map, text, k) == IF map[text] # 0 THEN map ELSE [map EXCEPT ![text] = k]

\* a thread calls intern_str(s): INTERNER.get_or_init(Default::default).get(s)
CallIntern(t) ==
    /\ inThr[t].pc \in {"idle", "done"} /\ CallsMade(inThr, InternThreads) < InternCalls
    /\ \E s \in InternStrings :
        inThr' = [inThr EXCEPT ![t] = [InNoThread EXCEPT !.pc = "read_lock",
                                                         !.calls = inThr[t].calls + 1,
                                                         !.key = s]]
    /\ inReady' = TRUE
    /\ UNCHANGED << inMap, inLock, inAllocs, inReturned, inInserted >>
    /\ UNCHANGED internFrame

\* Interner::get: self.data.read()
InReadLock(t) ==
    /\ inThr[t].pc = "read_lock"
    /\ CanRead(inLock)
    /\ inLock' = [inLock EXCEPT !.readers = @ \cup {t}]
    /\ inThr' = [inThr EXCEPT ![t].pc = "read"]
    /\ UNCHANGED << inReady, inMap, inAllocs, inReturned, inInserted >>
    /\ UNCHANGED internFrame

\* a variant that still holds the read guard when it asks for the write lock
InRead_KeepsGuard(t) ==
    /\ inThr[t].pc = "read"
    /\ LET found == get_key_value(inMap, inThr[t].key)
       IN  IF found.present
           THEN /\ inThr' = [inThr EXCEPT ![t].pc = "done", ![t].via = "read",
                                          ![t].result = found.v]
                /\ inLock' = [inLock EXCEPT !.readers = @ \ {t}]
                /\ inReturned' = inReturned \cup
                       {<< t, inThr[t].calls, inThr[t].key, found.v >>}
           ELSE /\ inThr' = [inThr EXCEPT ![t].pc = "write_lock"]
                /\ UNCHANGED << inLock, inReturned >>
    /\ UNCHANGED << inReady, inMap, inAllocs, inInserted >>
    /\ UNCHANGED internFrame

\* Interner::get: the lookup under the read guard; a hit returns k.clone()
\* (the guard goes with the return), a miss drops the guard
InRead(t) ==
    /\ inThr[t].pc = "read"
    /\ inLock' = [inLock EXCEPT !.readers = @ \ {t}]
    /\ LET found == get_key_value(inMap, inThr[t].key)
       IN  IF found.present
           THEN /\ inThr' = [inThr EXCEPT ![t].pc = "done", ![t].via = "read",
                                          ![t].result = found.v]
                /\ inReturned' = inReturned \cup
                       {<< t, inThr[t].calls, inThr[t].key, found.v >>}
           ELSE /\ inThr' = [inThr EXCEPT ![t].pc = "write_lock"]
                /\ UNCHANGED inReturned
    /\ UNCHANGED << inReady, inMap, inAllocs, inInserted >>
    /\ UNCHANGED internFrame

\* Interner::get: self.data.write()
InWriteLock(t) ==
    /\ inThr[t].pc = "write_lock"
    /\ CanWrite(inLock)
    /\ inLock' = [inLock EXCEPT !.writer = t]
    /\ inThr' = [inThr EXCEPT ![t].pc = "write"]
    /\ UNCHANGED << inReady, inMap, inAllocs, inReturned, inInserted >>
    /\ UNCHANGED internFrame

\* a variant that never finds the entry another thread has inserted
InEntryToReuse_Never(map, key) == None

\* "try one last time for existing shared string" under the write lock
InEntryToReuse(map, key) == get_key_value(map, key)

\* Interner::get: re-check under the write lock; reuse the stored key, or
\* allocate an ArcStr, insert it and return it
InWrite(t) ==
    /\ inThr[t].pc = "write"
    /\ LET key == inThr[t].key
           found == InEntryToReuse(inMap, key)
           k == Len(inAllocs) + 1
       IN  IF found.present
           THEN /\ inThr' = [inThr EXCEPT ![t].pc = "done", ![t].via = "recheck",
                                          ![t].result = found.v]
                /\ inReturned' = inReturned \cup {<< t, inThr[t].calls, key, found.v >>}
                /\ UNCHANGED << inMap, inAllocs, inInserted >>
           ELSE /\ inAllocs' = Append(inAllocs, key)
                /\ inMap' = insert(inMap, key, k)
                /\ inInserted' = [inInserted EXCEPT ![key] = @ + 1]
                /\ inThr' = [inThr EXCEPT ![t].pc = "done", ![t].via = "insert",
                                          ![t].result = k]
                /\ inReturned' = inReturned \cup {<< t, inThr[t].calls, key, k >>}
    /\ inLock' = [inLock EXCEPT !.writer = 0]
    /\ UNCHANGED inReady
    /\ UNCHANGED internFrame

InternNext ==
    \E t \in InThreads :
        \/ CallIntern(t) \/ InReadLock(t) \/ InRead(t) \/ InWriteLock(t) \/ InWrite(t)

(***************************************************************************)
(* world/cache.rs: ChunkCache::get called directly                         *)
(***************************************************************************)
\* ChunkBounds::single_chunk
single_chunk(c) == MinMax(c, << c[1] + 1, c[2] + 1 >>)

\* the chunk coordinates asked for
CacheCoords == (-1..MaxCoord) \X (-1..MaxCoord)

\* the caches: one region of chunks, under each shape of ChunkBounds
CacheWorlds ==
    { [regions |-> {<<0, 0>>}, layout |-> "mixed", bounds |-> b] :
        b \in { Unbounded, MinMax(<<0, 0>>, <<2, 2>>), MinMax(<<-1, 1>>, <<1, 3>>),
                single_chunk(<<1, 1>>) } }

CacheNoCall == [coords |-> <<0, 0>>, chunk |-> None, cache_before |-> <<>>,
                loads_before |-> 0]

CacheInit ==
    /\ ccWorld \in CacheWorlds
    /\ ccCache = <<>>
    /\ ccLoads = 0
    /\ ccCall = CacheNoCall
    /\ ccGets = 0

CacheIdle ==
    /\ ccWorld = <<>> /\ ccCache = <<>> /\ ccLoads = 0 /\ ccCall = CacheNoCall
    /\ ccGets = -1

\* ChunkCache::get(coords)
CacheGet ==
    /\ ccGets >= 0 /\ ccGets < MaxGets
    /\ \E c \in CacheCoords :
        LET g == ChunkCacheGet(ccWorld, ccCache, c)
        IN  /\ ccCache' = g.cache
            /\ ccLoads' = ccLoads + g.loads
            /\ ccCall' = [coords |-> c, chunk |-> g.chunk, cache_before |-> ccCache,
                          loads_before |-> ccLoads]
    /\ ccGets' = ccGets + 1
    /\ UNCHANGED ccWorld
    /\ UNCHANGED cacheFrame

CacheNext == CacheGet

(***************************************************************************)
(* canvas/overlay.rs: impl Overlay<Rgba<u8>> for Rgba<u8> :: overlay_final *)
(***************************************************************************)
\* channel values the pixels are drawn from: the ends of the range, their
\* neighbours, and values in between
Shades == << 0, 255, 128, 1, 254, 127, 64, 200 >>
Shade(i) == Shades[(i % Min(MaxShades, Len(Shades))) + 1]

\* overlay_final(&mut self, src): the three colour channels are assigned from
\* blend_final_pixel_u8, self[3] is not assigned
overlay_final_pixel(self, src) ==
    << blend_final_pixel_u8(self[1], src[1], src[4]),
       blend_final_pixel_u8(self[2], src[2], src[4]),
       blend_final_pixel_u8(self[3], src[3], src[4]),
       self[4] >>

PixelInit ==
    \E i, j \in 0..(MaxShades - 1), bg_a \in {255, 128}, fg_a \in 0..255 :
        /\ pxBg = << Shade(i), Shade(i + 1), Shade(i + 2), bg_a >>
        /\ pxFg = << Shade(j), Shade(j + 2), Shade(j + 4), fg_a >>
        /\ pxOut = pxBg
        /\ pxPc = "call"

PixelIdle ==
    /\ pxBg = << >> /\ pxFg = << >> /\ pxOut = << >> /\ pxPc = "idle"

\* bg.overlay_final(&fg)
OverlayFinalPixel ==
    /\ pxPc = "call"
    /\ pxOut' = overlay_final_pixel(pxBg, pxFg)
    /\ pxPc' = "done"
    /\ UNCHANGED << pxBg, pxFg >>
    /\ UNCHANGED pixelFrame

PixelNext == OverlayFinalPixel

(***************************************************************************)
(* canvas: images.  An ImageBuf is [kind "buf", width, height, pixels]     *)
(* with its pixels row by row; an ImageView is [kind "view", image, left,  *)
(* top, width, height] over the image it wraps.  A pixel is one number.    *)
(***************************************************************************)
USIZE_MAX == Pow2(WordBits) - 1
ISIZE_MAX == Pow2(WordBits - 1) - 1
ISIZE_MIN == 0 - Pow2(WordBits - 1)

saturating_add(a, b) == Min(a + b, USIZE_MAX)
saturating_sub(a, b) == Max(a - b, 0)

\* an ImageBuf of the given size whose pixel i (row by row) is first + i
NumberedBuf(w, h, first) ==
    [kind |-> "buf", width |-> w, height |-> h,
     pixels |-> [i \in 1..(w * h) |-> first + i - 1]]

\* ImageBuf::pixel_index
pixel_index(img, x, y) ==
    IF x < img.width /\ y < img.height THEN Some(y * img.width + x) ELSE None

\* a variant that does not clamp the extent
ImageView_new_Unclamped(image, left, top, w, h) ==
    [kind |-> "view", image |-> image, left |-> Min(left, image.width),
     top |-> Min(top, image.height), width |-> w, height |-> h]

\* ImageView::new
ImageView_new(image, left, top, w, h) ==
    LET l == Min(left, image.width)
        t == Min(top, image.height)
    IN  [kind |-> "view", image |-> image, left |-> l, top |-> t,
         width |-> Min(w, saturating_sub(image.width, l)),
         height |-> Min(h, saturating_sub(image.height, t))]

\* Image::get_pixel: of ImageBuf through pixel_index, of ImageView forwarded
\* to the wrapped image
RECURSIVE get_pixel(_, _, _)
get_pixel(img, x, y) ==
    IF img.kind = "buf"
    THEN LET i == pixel_index(img, x, y)
         IN  IF i.present THEN Some(img.pixels[i.v + 1]) ELSE None
    ELSE get_pixel(img.image, saturating_add(x, img.left), saturating_add(y, img.top))

\* Image::raw_pixels: "the underlying buffer as a slice of pixels, not taking
\* into account view limits"; an ImageBuf gives its pixels
RECURSIVE raw_pixels(_)
raw_pixels(img) == IF img.kind = "buf" THEN img.pixels ELSE raw_pixels(img.image)

\* Image::raw_pixel_row_stride: "the offset from (x, y) to (x, y + 1)"; a
\* view has the stride of what it wraps, an ImageBuf its width
RECURSIVE raw_pixel_row_stride(_)
raw_pixel_row_stride(img) ==
    IF img.kind = "buf" THEN img.width ELSE raw_pixel_row_stride(img.image)

\* Image::raw_pixel_offset: "the start of this image's pixels" within
\* raw_pixels; an ImageBuf starts at 0
RECURSIVE raw_pixel_offset(_)
raw_pixel_offset(img) ==
    IF img.kind = "buf" THEN 0
    ELSE raw_pixel_offset(img.image) + raw_pixel_row_stride(img.image) * img.top + img.left

(***************************************************************************)
(* canvas/overlay.rs: overlay and overlay_at, with the Rgb-onto-Rgb pixel  *)
(* overlay (copy_from_slice)                                               *)
(***************************************************************************)
\* the body of `for _ in 0..rows` from row r on; st is [pixels, touched,
\* status]; a slice range past the end of its buffer panics
RECURSIVE OverlayRows(_, _, _, _, _, _)
OverlayRows(st, dst, src, rows, cols, r) ==
    IF r >= rows \/ st.status # "ok" THEN st
    ELSE LET dst_offset == raw_pixel_offset(dst) + r * raw_pixel_row_stride(dst)
             src_offset == raw_pixel_offset(src) + r * raw_pixel_row_stride(src)
             src_pixels == raw_pixels(src)
         IN  IF dst_offset + cols > Len(st.pixels) \/ src_offset + cols > Len(src_pixels)
             THEN [st EXCEPT !.status = "out_of_range"]
             ELSE OverlayRows(
                    [st EXCEPT
                        !.pixels = [i \in 1..Len(st.pixels) |->
                                       IF i > dst_offset /\ i <= dst_offset + cols
                                       THEN src_pixels[src_offset + (i - dst_offset)]
                                       ELSE st.pixels[i]],
                        !.touched = @ \cup ((dst_offset + 1)..(dst_offset + cols))],
                    dst, src, rows, cols, r + 1)

\* overlay(dst, src)
overlay(dst, src) ==
    OverlayRows([pixels |-> raw_pixels(dst), touched |-> {}, status |-> "ok"], dst, src,
                Min(dst.height, src.height), Min(dst.width, src.width), 0)

\* `(-left) as usize`: negating the least isize overflows
NegatedOffset(v, checks) ==
    IF v # ISIZE_MIN THEN Ok(0 - v)
    ELSE IF checks THEN Panic ELSE Ok(Pow2(WordBits - 1))

\* overlay_at(dst, src, left, top)
overlay_at(dst, src, left, top, checks) ==
    LET nl == IF left < 0 THEN NegatedOffset(left, checks) ELSE Ok(0)
        nt == IF top < 0 THEN NegatedOffset(top, checks) ELSE Ok(0)
    IN  IF ~nl.ok \/ ~nt.ok
        THEN [pixels |-> raw_pixels(dst), touched |-> {}, status |-> "overflow"]
        ELSE LET dst_left == IF left < 0 THEN 0 ELSE left
                 src_left == IF left < 0 THEN nl.v ELSE 0
                 dst_top == IF top < 0 THEN 0 ELSE top
                 src_top == IF top < 0 THEN nt.v ELSE 0
                 dst_view == ImageView_new(dst, dst_left, dst_top, USIZE_MAX, USIZE_MAX)
                 src_view == ImageView_new(src, src_left, src_top, USIZE_MAX, USIZE_MAX)
             IN  overlay(dst_view, src_view)

\* the images: every ImageBuf up to MaxDim x MaxDim, and views into the
\* largest one at and off its edges
BlitOffsets == (0 - MaxDim - 1)..(MaxDim + 1) \cup {ISIZE_MIN, ISIZE_MAX}

BlitBuffers(first) == { NumberedBuf(w, h, first) : w \in 0..MaxDim, h \in 0..MaxDim }

BlitViews(first) ==
    { ImageView_new(NumberedBuf(MaxDim, MaxDim, first), l, t, w, h) :
        l \in {0, 1, MaxDim}, t \in {0, 2}, w \in {1, 2, USIZE_MAX}, h \in {2, USIZE_MAX} }

BlitNoOut == [pixels |-> << >>, touched |-> {}, status |-> "none"]

BlitInit ==
    /\ blDst \in BlitBuffers(0) \cup BlitViews(0)
    /\ blSrc \in { NumberedBuf(w, h, 100) : w \in 0..2, h \in 0..2 }
                 \cup { ImageView_new(NumberedBuf(3, 2, 100), 1, t, 2, 2) : t \in {0, 1} }
    /\ blLeft \in BlitOffsets
    /\ blTop \in BlitOffsets
    /\ blChecks \in BOOLEAN
    /\ blOut = BlitNoOut
    /\ blPc = "call"

BlitIdle ==
    /\ blDst = << >> /\ blSrc = << >> /\ blLeft = 0 /\ blTop = 0 /\ blChecks = FALSE
    /\ blOut = BlitNoOut /\ blPc = "idle"

\* overlay_at(&mut dst, &src, left, top)
OverlayAt ==
    /\ blPc = "call"
    /\ blOut' = overlay_at(blDst, blSrc, blLeft, blTop, blChecks)
    /\ blPc' = "done"
    /\ UNCHANGED << blDst, blSrc, blLeft, blTop, blChecks >>
    /\ UNCHANGED blitFrame

BlitNext == OverlayAt

(***************************************************************************)
(* canvas/view.rs: views of views                                          *)
(***************************************************************************)
\* a variant that forgets the position of the view it is called on
view_NoOffset(img, left, top, w, h) ==
    IF img.kind = "buf" THEN ImageView_new(img, left, top, w, h)
    ELSE ImageView_new(img.image, left, top, w, h)

\* image.view(left, top, width, height): Image::view on an ImageBuf, the
\* inherent ImageView::view on an ImageView
view(img, left, top, w, h) ==
    IF img.kind = "buf" THEN ImageView_new(img, left, top, w, h)
    ELSE ImageView_new(img.image, saturating_add(left, img.left),
                       saturating_add(top, img.top), w, h)

ViewRoots == { NumberedBuf(w, h, 0) : w \in 1..MaxDim, h \in {2, MaxDim} }

ViewArgs ==
    [a : 0..2, b : 0..1, w : {0, 2, MaxDim + 1}, h : {1, MaxDim},
     c : 0..2, d : 0..1, W : 0..MaxDim, H : 1..2]

ViewNoGot == [on |-> "none", x |-> 0, y |-> 0, pixel |-> None]

ViewInit ==
    /\ vwRoot \in ViewRoots
    /\ vwArgs \in ViewArgs
    /\ vwFirst = None
    /\ vwSecond = None
    /\ vwDirect = None
    /\ vwGot = ViewNoGot
    /\ vwPc = "root"

ViewIdle ==
    /\ vwRoot = << >> /\ vwArgs = << >> /\ vwFirst = None /\ vwSecond = None
    /\ vwDirect = None /\ vwGot = ViewNoGot /\ vwPc = "idle"

\* root.view(a, b, w, h)
TakeView ==
    /\ vwPc = "root"
    /\ vwFirst' = Some(view(vwRoot, vwArgs.a, vwArgs.b, vwArgs.w, vwArgs.h))
    /\ vwPc' = "first"
    /\ UNCHANGED << vwRoot, vwArgs, vwSecond, vwDirect, vwGot >>
    /\ UNCHANGED viewFrame

\* first.view(c, d, W, H)
TakeSubView ==
    /\ vwPc = "first"
    /\ vwSecond' = Some(view(vwFirst.v, vwArgs.c, vwArgs.d, vwArgs.W, vwArgs.H))
    /\ vwPc' = "second"
    /\ UNCHANGED << vwRoot, vwArgs, vwFirst, vwDirect, vwGot >>
    /\ UNCHANGED viewFrame

\* root.view(a + c, b + d, W, H)
TakeDirectView ==
    /\ vwPc = "second"
    /\ vwDirect' = Some(view(vwRoot, vwArgs.a + vwArgs.c, vwArgs.b + vwArgs.d,
                             vwArgs.W, vwArgs.H))
    /\ vwPc' = "done"
    /\ UNCHANGED << vwRoot, vwArgs, vwFirst, vwSecond, vwGot >>
    /\ UNCHANGED viewFrame

\* get_pixel(x, y) on the first or on the second view
GetPixel ==
    /\ vwPc = "done"
    /\ \E on \in {"first", "second"}, x \in 0..MaxDim, y \in 0..MaxDim :
        LET v == IF on = "first" THEN vwFirst.v ELSE vwSecond.v
        IN  vwGot' = [on |-> on, x |-> x, y |-> y, pixel |-> get_pixel(v, x, y)]
    /\ vwPc' = "got"
    /\ UNCHANGED << vwRoot, vwArgs, vwFirst, vwSecond, vwDirect >>
    /\ UNCHANGED viewFrame

ViewNext == TakeView \/ TakeSubView \/ TakeDirectView \/ GetPixel

(***************************************************************************)
(* world/mod.rs: RegionChunkIter                                           *)
(***************************************************************************)
\* the entries of the location table that vary (the others are zero)
IterSlots == {0, 1, REGION_CHUNK_COUNT - 2, REGION_CHUNK_COUNT - 1}

\* the records they hold: none, a chunk in sector 2, a chunk past the end of
\* the file, and a record with a sector count and no offset
IterLocations == {0, Location(2, 1), Location(MaxSector + 1, 1), Location(0, 1)}

\* Region::into_iter on a region opened from the file
IterInit ==
    /\ \E table \in [IterSlots -> IterLocations], data \in [2..MaxSector -> Payloads] :
        /\ itFile = [sectors |-> MaxSector + 1,
                     table |-> [i \in 0..(REGION_CHUNK_COUNT - 1) |->
                                   IF i \in IterSlots THEN table[i] ELSE 0],
                     header_inflates |-> FALSE,
                     data |-> data]
        /\ itChunks = [i \in 0..(REGION_CHUNK_COUNT - 1) |->
                          IF i \in IterSlots THEN table[i] ELSE 0]
    /\ itIndex = 0
    /\ itItems = << >>
    /\ itPc = "iterating"

IterIdle ==
    /\ itFile = << >> /\ itChunks = << >> /\ itIndex = 0 /\ itItems = << >>
    /\ itPc = "idle"

\* a variant whose Err arm is `continue`
MatchArm_ErrSkipped(result) == IF result = "chunk" THEN "return" ELSE "continue"

\* the arms of `match self.region.get_raw_chunk_by_index(i)`: Ok(Some) and
\* Err return an item, Ok(None) continues
MatchArm(result) == IF result = "absent" THEN "continue" ELSE "return"

\* `while let Some(i) = self.index_iter.next()` from index i on: the loop
\* stops at the first index whose arm returns, or runs index_iter out; gives
\* the item returned and where index_iter is left
NextItem(chunks, file, i) ==
    LET returning == { j \in i..(REGION_CHUNK_COUNT - 1) :
                         MatchArm(get_raw_chunk_by_index(chunks, file, j).result)
                             = "return" }
    IN  IF returning = {}
        THEN [index |-> REGION_CHUNK_COUNT, item |-> "none", next |-> REGION_CHUNK_COUNT]
        ELSE LET k == SetMin(returning)
             IN  [index |-> k, item |-> get_raw_chunk_by_index(chunks, file, k).result,
                  next |-> k + 1]

\* RegionChunkIter::next (at most two calls after the end was reported)
IterNextCall ==
    /\ itPc = "iterating"
    /\ Len(SelectSeq(itItems, LAMBDA it : it.item = "none")) < 2
    /\ LET r == NextItem(itChunks, itFile, itIndex)
       IN  /\ itItems' = Append(itItems, [index |-> r.index, item |-> r.item])
           /\ itIndex' = r.next
    /\ UNCHANGED << itFile, itChunks, itPc >>
    /\ UNCHANGED iterFrame

IterNext == IterNextCall

(***************************************************************************)
(* render/mod.rs: Renderer::render_chunk_context_at and                    *)
(* render_section_context_at                                               *)
(***************************************************************************)
SECTION_ORIGIN ==
    << (SECTION_RENDER_WIDTH \div 2) - (SPRITE_SIZE \div 2),
       (CHUNK_SIZE - 1) * (SPRITE_SIZE \div 2) >>
BLOCK_OFFSET_X == << SPRITE_SIZE \div 2, SPRITE_SIZE \div 4 >>
BLOCK_OFFSET_Z == << -(SPRITE_SIZE \div 2), SPRITE_SIZE \div 4 >>
BLOCK_OFFSET_Y == << 0, -(SPRITE_SIZE \div 2) >>

\* `start` of every block of a section, before Vec2D(x, y) is added
BlockStarts ==
    { << SECTION_ORIGIN[1] + BLOCK_OFFSET_X[1] * x + BLOCK_OFFSET_Z[1] * z
            + BLOCK_OFFSET_Y[1] * y,
         SECTION_ORIGIN[2] + BLOCK_OFFSET_X[2] * x + BLOCK_OFFSET_Z[2] * z
            + BLOCK_OFFSET_Y[2] * y >> :
      x \in 0..(CHUNK_SIZE - 1), z \in 0..(CHUNK_SIZE - 1), y \in 0..(CHUNK_SIZE - 1) }

\* render_section_context_at: where the sprites of the section go, the blocks
\* that would be entirely out of bounds skipped; << left, top, right, bottom >>
\* of the sprites drawn (right and bottom exclusive), None when all are skipped
SectionBox(out, x, y) ==
    LET starts == { << s[1] + x, s[2] + y >> : s \in BlockStarts }
        kept == { s \in starts : ~(\/ s[1] + SPRITE_SIZE <= 0
                                   \/ s[2] + SPRITE_SIZE <= 0
                                   \/ s[1] >= out[1]
                                   \/ s[2] >= out[2]) }
    IN  IF kept = {} THEN None
        ELSE Some([box |-> << SetMin({ s[1] : s \in kept }), SetMin({ s[2] : s \in kept }),
                              SetMax({ s[1] : s \in kept }) + SPRITE_SIZE,
                              SetMax({ s[2] : s \in kept }) + SPRITE_SIZE >>,
                   skipped |-> starts # kept])

\* `as isize` of a usize
AsIsize(v) == IF v > ISIZE_MAX THEN v - (USIZE_MAX + 1) ELSE v

\* a variant that steps a whole section height per section
SectionYOffset_WholeStep(i, checks) ==
    LET v == CHUNK_RENDER_HEIGHT - SECTION_RENDER_HEIGHT - (i * SECTION_RENDER_HEIGHT)
    IN  IF v >= 0 THEN Ok(v)
        ELSE IF checks THEN Panic
        ELSE Ok(v % (USIZE_MAX + 1))

\* y_offset of section i, in usize: the subtraction panics below zero when the
\* build checks overflow and wraps when it does not
SectionYOffset(i, checks) ==
    LET v == CHUNK_RENDER_HEIGHT - SECTION_RENDER_HEIGHT
             - ((i * SECTION_RENDER_HEIGHT) \div 2)
    IN  IF v >= 0 THEN Ok(v)
        ELSE IF checks THEN Panic
        ELSE Ok(v % (USIZE_MAX + 1))

ChunkInit ==
    /\ crSections \in 0..MaxChunkSections
    /\ crOut \in { << CHUNK_RENDER_WIDTH, CHUNK_RENDER_HEIGHT >>,
                   << TILE_BUFFER_WIDTH, TILE_BUFFER_HEIGHT >> }
    /\ crAt \in { << 0, 0 >>, CHUNK_OFFSET_X, << 0, 3 * CHUNK_OFFSET_X[2] >> }
    /\ crChecks \in BOOLEAN
    /\ crI = 0
    /\ crDrawn = << >>
    /\ crPc = "loop"

ChunkIdle ==
    /\ crSections = 0 /\ crOut = << >> /\ crAt = << >> /\ crChecks = FALSE
    /\ crI = 0 /\ crDrawn = << >> /\ crPc = "idle"

\* one iteration of `for (i, section_context) in ...enumerate()`
RenderSectionContext ==
    /\ crPc = "loop"
    /\ crI < crSections
    /\ LET y_offset == SectionYOffset(crI, crChecks)
       IN  IF ~y_offset.ok
           THEN crPc' = "panic" /\ UNCHANGED << crI, crDrawn >>
           ELSE /\ crDrawn' = Append(crDrawn,
                       [i |-> crI, y_offset |-> y_offset.v,
                        sprites |-> SectionBox(crOut, crAt[1],
                                               crAt[2] + AsIsize(y_offset.v))])
                /\ crI' = crI + 1
                /\ crPc' = "loop"
    /\ UNCHANGED << crSections, crOut, crAt, crChecks >>
    /\ UNCHANGED chunkFrame

\* the loop has run out of sections: Ok(())
RenderChunkReturn ==
    /\ crPc = "loop"
    /\ crI = crSections
    /\ crPc' = "ok"
    /\ UNCHANGED << crSections, crOut, crAt, crChecks, crI, crDrawn >>
    /\ UNCHANGED chunkFrame

ChunkNext == RenderSectionContext \/ RenderChunkReturn

(***************************************************************************)
(* proplist.rs: Item and PropList.  Strings are sequences of bytes; the    *)
(* Pool only hands out the buffers and is not part of the state            *)
(***************************************************************************)
\* str::cmp: byte by byte, a proper prefix first
StrCmp(a, b) ==
    LET d == { i \in 1..Min(Len(a), Len(b)) : a[i] # b[i] }
    IN  IF d # {}
        THEN IF a[SetMin(d)] < b[SetMin(d)] THEN "Less" ELSE "Greater"
        ELSE IF Len(a) < Len(b) THEN "Less"
        ELSE IF Len(a) > Len(b) THEN "Greater"
        ELSE "Equal"

\* Item::try_new_inline, with N = InlineCapacity
try_new_inline(key, value) ==
    IF Len(key) + Len(value) <= InlineCapacity
    THEN Some([kind |-> "Inline",
               buf |-> key \o value
                       \o [k \in 1..(InlineCapacity - Len(key) - Len(value)) |-> 0],
               key_len |-> Len(key) % 256,
               len |-> (Len(key) + Len(value)) % 256])
    ELSE None

\* Item::new_allocated: Pool::store hands out a BytesMut split off the pool,
\* whose capacity is its length
new_allocated(key, value) ==
    [kind |-> "Allocated", buf |-> key \o value, key_len |-> Len(key),
     cap |-> Len(key) + Len(value)]

\* Item::new
ItemNew(key, value) ==
    IF try_new_inline(key, value).present THEN try_new_inline(key, value).v
    ELSE new_allocated(key, value)

\* Item::get_split_and_buffer
get_split_and_buffer(item) ==
    IF item.kind = "Inline" THEN << item.key_len, SubSeq(item.buf, 1, item.len) >>
    ELSE << item.key_len, item.buf >>

\* Item::key_value, Item::key, Item::value
key_value(item) ==
    LET sb == get_split_and_buffer(item)
    IN  << SubSeq(sb[2], 1, sb[1]), SubSeq(sb[2], sb[1] + 1, Len(sb[2])) >>
ItemKey(item) == key_value(item)[1]
ItemValue(item) == key_value(item)[2]

\* Item::try_update: [updated, item]
try_update(item, value) ==
    LET new_len == item.key_len + Len(value)
    IN  IF item.kind = "Inline"
        THEN IF new_len <= InlineCapacity
             THEN [updated |-> TRUE,
                   item |-> [item EXCEPT
                       !.buf = [k \in 1..InlineCapacity |->
                                   IF item.key_len < k /\ k <= new_len
                                   THEN value[k - item.key_len] ELSE item.buf[k]],
                       !.len = new_len % 256]]
             ELSE [updated |-> FALSE, item |-> item]
        ELSE IF new_len <= item.cap
             THEN [updated |-> TRUE,
                   item |-> [item EXCEPT
                       !.buf = SubSeq(item.buf, 1, item.key_len) \o value]]
             ELSE [updated |-> FALSE, item |-> item]

\* Item::clone: try_clone_inline, else clone_allocated
ItemClone(item) ==
    IF item.kind = "Inline" THEN item
    ELSE IF Len(item.buf) > InlineCapacity
    THEN [kind |-> "Allocated", buf |-> item.buf, key_len |-> item.key_len,
          cap |-> Len(item.buf)]
    ELSE [kind |-> "Inline",
          buf |-> item.buf \o [k \in 1..(InlineCapacity - Len(item.buf)) |-> 0],
          key_len |-> item.key_len % 256,
          len |-> Len(item.buf) % 256]

\* a variant that compares the items as stored
ItemEq_AsStored(a, b) == a = b

\* impl PartialEq for Item
ItemEq(a, b) == get_split_and_buffer(a) = get_split_and_buffer(b)

\* impl Hash for Item: the writes it adds to the hasher's input
ItemHash(item, state) ==
    LET buf == item.buf
        len == IF item.kind = "Inline" THEN item.len ELSE Len(item.buf)
    IN  state \o << SubSeq(buf, 1, item.key_len), << 255 >>,
                    SubSeq(buf, item.key_len + 1, len), << 255 >> >>

\* slice::binary_search_by over items[base + 1 .. base + size] (size >= 1)
RECURSIVE BinarySearch(_, _, _, _)
BinarySearch(items, key, base, size) ==
    IF size > 1
    THEN LET half == size \div 2
             mid == base + half
         IN  BinarySearch(items, key,
                          IF StrCmp(ItemKey(items[mid + 1]), key) = "Greater"
                          THEN base ELSE mid,
                          size - half)
    ELSE LET cmp == StrCmp(ItemKey(items[base + 1]), key)
         IN  IF cmp = "Equal" THEN [ok |-> TRUE, i |-> base]
             ELSE [ok |-> FALSE, i |-> base + (IF cmp = "Less" THEN 1 ELSE 0)]

\* PropList::get_item_index: Ok(i) or Err(i), i counted from 0
get_item_index(items, key) ==
    IF Len(items) = 0 THEN [ok |-> FALSE, i |-> 0]
    ELSE BinarySearch(items, key, 0, Len(items))

\* PropList::get and PropList::contains_key
get(items, key) ==
    LET r == get_item_index(items, key)
    IN  IF r.ok THEN Some(ItemValue(items[r.i + 1])) ELSE None
contains_key(items, key) == get_item_index(items, key).ok

\* a variant that puts a new item at the end
PropListInsert_AtEnd(items, key, value) ==
    LET r == get_item_index(items, key)
    IN  IF r.ok
        THEN LET u == try_update(items[r.i + 1], value)
             IN  [items EXCEPT ![r.i + 1] =
                     IF u.updated THEN u.item ELSE new_allocated(key, value)]
        ELSE Append(items, ItemNew(key, value))

\* PropList::insert
PropListInsert(items, key, value) ==
    LET r == get_item_index(items, key)
    IN  IF r.ok
        THEN LET u == try_update(items[r.i + 1], value)
             IN  [items EXCEPT ![r.i + 1] =
                     IF u.updated THEN u.item ELSE new_allocated(key, value)]
        ELSE SubSeq(items, 1, r.i) \o << ItemNew(key, value) >>
             \o SubSeq(items, r.i + 1, Len(items))

\* PropList::remove: [items, ret]
remove(items, key) ==
    LET r == get_item_index(items, key)
    IN  IF r.ok
        THEN [items |-> SubSeq(items, 1, r.i) \o SubSeq(items, r.i + 2, Len(items)),
              ret |-> TRUE]
        ELSE [items |-> items, ret |-> FALSE]

\* the closures given to retain
RetainFns == { "key_starts_with_a", "value_not_empty" }
RetainFn(f, k, v) ==
    IF f = "key_starts_with_a" THEN Len(k) > 0 /\ k[1] = 97 ELSE Len(v) > 0

\* PropList::retain: Vec::retain keeps the items f accepts, in order
RECURSIVE retain(_, _)
retain(items, f) ==
    IF Len(items) = 0 THEN << >>
    ELSE LET kv == key_value(items[1])
         IN  (IF RetainFn(f, kv[1], kv[2]) THEN << items[1] >> ELSE << >>)
             \o retain(Tail(items), f)

\* impl Clone for PropList
PropListClone(items) == [k \in 1..Len(items) |-> ItemClone(items[k])]

\* impl PartialEq for PropList: Vec equality of the items
PropListEq(a, b) ==
    /\ Len(a) = Len(b)
    /\ \A k \in 1..Len(a) : ItemEq(a[k], b[k])

\* impl Hash for PropList: the hasher's input after all the items
RECURSIVE PropListHash(_, _)
PropListHash(items, state) ==
    IF Len(items) = 0 THEN state
    ELSE PropListHash(Tail(items), ItemHash(items[1], state))

PropKeys == { << 97 >>, << 97, 98 >>, << 98 >> }
PropValues == { << >>, << 120 >>, << 120, 121, 122 >> }
PropLists == { 1, 2 }
NoPropCall == [op |-> "none", list |-> 0, key |-> << >>, ret |-> FALSE, had |-> FALSE]

PropInit ==
    /\ plItems = [l \in PropLists |-> << >>]
    /\ plLast = [l \in PropLists |-> [k \in PropKeys |-> None]]
    /\ plCall = NoPropCall
    /\ plOps = 0

PropIdle ==
    /\ plItems = << >> /\ plLast = << >> /\ plCall = NoPropCall /\ plOps = -1

PropInsert ==
    /\ plOps >= 0 /\ plOps < MaxPropOps
    /\ \E l \in PropLists, key \in PropKeys, value \in PropValues :
        /\ plItems' = [plItems EXCEPT ![l] = PropListInsert(plItems[l], key, value)]
        /\ plLast' = [plLast EXCEPT ![l][key] = Some(value)]
        /\ plCall' = [op |-> "insert", list |-> l, key |-> key, ret |-> FALSE,
                      had |-> plLast[l][key].present]
    /\ plOps' = plOps + 1
    /\ UNCHANGED propFrame

PropRemove ==
    /\ plOps >= 0 /\ plOps < MaxPropOps
    /\ \E l \in PropLists, key \in PropKeys :
        /\ plItems' = [plItems EXCEPT ![l] = remove(plItems[l], key).items]
        /\ plLast' = [plLast EXCEPT ![l][key] = None]
        /\ plCall' = [op |-> "remove", list |-> l, key |-> key,
                      ret |-> remove(plItems[l], key).ret,
                      had |-> plLast[l][key].present]
    /\ plOps' = plOps + 1
    /\ UNCHANGED propFrame

PropRetain ==
    /\ plOps >= 0 /\ plOps < MaxPropOps
    /\ \E l \in PropLists, f \in RetainFns :
        /\ plItems' = [plItems EXCEPT ![l] = retain(plItems[l], f)]
        /\ plLast' = [plLast EXCEPT ![l] =
                        [k \in PropKeys |->
                            IF plLast[l][k].present /\ RetainFn(f, k, plLast[l][k].v)
                            THEN plLast[l][k] ELSE None]]
        /\ plCall' = [op |-> "retain", list |-> l, key |-> << >>, ret |-> FALSE,
                      had |-> FALSE]
    /\ plOps' = plOps + 1
    /\ UNCHANGED propFrame

PropClear ==
    /\ plOps >= 0 /\ plOps < MaxPropOps
    /\ \E l \in PropLists :
        /\ plItems' = [plItems EXCEPT ![l] = << >>]
        /\ plLast' = [plLast EXCEPT ![l] = [k \in PropKeys |-> None]]
        /\ plCall' = [op |-> "clear", list |-> l, key |-> << >>, ret |-> FALSE,
                      had |-> FALSE]
    /\ plOps' = plOps + 1
    /\ UNCHANGED propFrame

\* list l becomes a clone of the other list
PropClone ==
    /\ plOps >= 0 /\ plOps < MaxPropOps
    /\ \E l \in PropLists :
        /\ plItems' = [plItems EXCEPT ![l] = PropListClone(plItems[3 - l])]
        /\ plLast' = [plLast EXCEPT ![l] = plLast[3 - l]]
        /\ plCall' = [op |-> "clone", list |-> l, key |-> << >>, ret |-> FALSE,
                      had |-> FALSE]
    /\ plOps' = plOps + 1
    /\ UNCHANGED propFrame

PropNext == PropInsert \/ PropRemove \/ PropRetain \/ PropClear \/ PropClone

(***************************************************************************)
(* canvas/scalar.rs u16_div_by_255 and sse4.rs / avx2.rs u16x16_div_by_255 *)
(* on the same 16-bit value                                                *)
(***************************************************************************)
DivInit ==
    /\ dvA \in 0..(Pow2(16) - 1)
    /\ dvScalar = -1
    /\ dvSimd = -1
    /\ dvSums = << >>
    /\ dvPc = "scalar"

DivIdle ==
    /\ dvA = 0 /\ dvScalar = -1 /\ dvSimd = -1 /\ dvSums = << >> /\ dvPc = "idle"

\* u16_div_by_255(a)
DivScalar ==
    /\ dvPc = "scalar"
    /\ dvScalar' = u16_div_by_255(dvA)
    /\ dvSums' = << dvA + 257, dvA + (((dvA + 257) % 65536) \div 256) >>
    /\ dvPc' = "simd"
    /\ UNCHANGED << dvA, dvSimd >>
    /\ UNCHANGED divFrame

\* u16x16_div_by_255(a), one lane
DivSimd ==
    /\ dvPc = "simd"
    /\ dvSimd' = u16x16_div_by_255(dvA)
    /\ dvPc' = "done"
    /\ UNCHANGED << dvA, dvScalar, dvSums >>
    /\ UNCHANGED divFrame

DivNext == DivScalar \/ DivSimd

(***************************************************************************)
(* Specifications.                                                         *)
(***************************************************************************)
InitOverlay == OverlayInit /\ ParseIdle /\ BufIdle /\ RegionIdle /\ WalkIdle /\ SpriteIdle /\ AssetIdle /\ InternIdle /\ CacheIdle /\ PixelIdle /\ BlitIdle /\ ViewIdle /\ IterIdle /\ ChunkIdle /\ PropIdle /\ DivIdle
SpecOverlay == InitOverlay /\ [][OverlayNext]_vars

InitParse == ParseInit /\ OverlayIdle /\ BufIdle /\ RegionIdle /\ WalkIdle /\ SpriteIdle /\ AssetIdle /\ InternIdle /\ CacheIdle /\ PixelIdle /\ BlitIdle /\ ViewIdle /\ IterIdle /\ ChunkIdle /\ PropIdle /\ DivIdle
SpecParse == InitParse /\ [][ParseNext]_vars

InitBuf == BufInit /\ OverlayIdle /\ ParseIdle /\ RegionIdle /\ WalkIdle /\ SpriteIdle /\ AssetIdle /\ InternIdle /\ CacheIdle /\ PixelIdle /\ BlitIdle /\ ViewIdle /\ IterIdle /\ ChunkIdle /\ PropIdle /\ DivIdle
SpecBuf == InitBuf /\ [][BufNext]_vars

InitRegion == RegionInit /\ OverlayIdle /\ ParseIdle /\ BufIdle /\ WalkIdle /\ SpriteIdle /\ AssetIdle /\ InternIdle /\ CacheIdle /\ PixelIdle /\ BlitIdle /\ ViewIdle /\ IterIdle /\ ChunkIdle /\ PropIdle /\ DivIdle
SpecRegion == InitRegion /\ [][RegionNext]_vars

InitWalk == WalkInit /\ OverlayIdle /\ ParseIdle /\ BufIdle /\ RegionIdle /\ SpriteIdle /\ AssetIdle /\ InternIdle /\ CacheIdle /\ PixelIdle /\ BlitIdle /\ ViewIdle /\ IterIdle /\ ChunkIdle /\ PropIdle /\ DivIdle
SpecWalk == InitWalk /\ [][WalkNext]_vars

InitSprite ==
    SpriteInit /\ OverlayIdle /\ ParseIdle /\ BufIdle /\ RegionIdle /\ WalkIdle /\ AssetIdle /\ InternIdle /\ CacheIdle /\ PixelIdle /\ BlitIdle /\ ViewIdle /\ IterIdle /\ ChunkIdle /\ PropIdle /\ DivIdle
SpecSprite == InitSprite /\ [][SpriteNext]_vars

InitAsset ==
    AssetInit /\ OverlayIdle /\ ParseIdle /\ BufIdle /\ RegionIdle /\ WalkIdle /\ SpriteIdle /\ InternIdle /\ CacheIdle /\ PixelIdle /\ BlitIdle /\ ViewIdle /\ IterIdle /\ ChunkIdle /\ PropIdle /\ DivIdle
SpecAsset == InitAsset /\ [][AssetNext]_vars

InitIntern ==
    InternInit /\ AssetIdle /\ BufIdle /\ OverlayIdle /\ ParseIdle /\ RegionIdle /\ SpriteIdle /\ WalkIdle /\ CacheIdle /\ PixelIdle /\ BlitIdle /\ ViewIdle /\ IterIdle /\ ChunkIdle /\ PropIdle /\ DivIdle
SpecIntern == InitIntern /\ [][InternNext]_vars

InitCache ==
    CacheInit /\ AssetIdle /\ BufIdle /\ InternIdle /\ OverlayIdle /\ ParseIdle /\ RegionIdle /\ SpriteIdle /\ WalkIdle /\ PixelIdle /\ BlitIdle /\ ViewIdle /\ IterIdle /\ ChunkIdle /\ PropIdle /\ DivIdle
SpecCache == InitCache /\ [][CacheNext]_vars

InitPixel ==
    PixelInit /\ AssetIdle /\ BufIdle /\ CacheIdle /\ InternIdle /\ OverlayIdle /\ ParseIdle /\ RegionIdle /\ SpriteIdle /\ WalkIdle /\ BlitIdle /\ ViewIdle /\ IterIdle /\ ChunkIdle /\ PropIdle /\ DivIdle
SpecPixel == InitPixel /\ [][PixelNext]_vars

InitBlit ==
    BlitInit /\ AssetIdle /\ BufIdle /\ CacheIdle /\ InternIdle /\ OverlayIdle /\ ParseIdle /\ PixelIdle /\ RegionIdle /\ SpriteIdle /\ WalkIdle /\ ViewIdle /\ IterIdle /\ ChunkIdle /\ PropIdle /\ DivIdle
SpecBlit == InitBlit /\ [][BlitNext]_vars

InitView ==
    ViewInit /\ AssetIdle /\ BlitIdle /\ BufIdle /\ CacheIdle /\ InternIdle /\ OverlayIdle /\ ParseIdle /\ PixelIdle /\ RegionIdle /\ SpriteIdle /\ WalkIdle /\ IterIdle /\ ChunkIdle /\ PropIdle /\ DivIdle
SpecView == InitView /\ [][ViewNext]_vars

InitIter ==
    IterInit /\ AssetIdle /\ BlitIdle /\ BufIdle /\ CacheIdle /\ InternIdle /\ OverlayIdle /\ ParseIdle /\ PixelIdle /\ RegionIdle /\ SpriteIdle /\ ViewIdle /\ WalkIdle /\ ChunkIdle /\ PropIdle /\ DivIdle
SpecIter == InitIter /\ [][IterNext]_vars

InitChunk ==
    ChunkInit /\ AssetIdle /\ BlitIdle /\ BufIdle /\ CacheIdle /\ InternIdle /\ IterIdle /\ OverlayIdle /\ ParseIdle /\ PixelIdle /\ RegionIdle /\ SpriteIdle /\ ViewIdle /\ WalkIdle /\ PropIdle /\ DivIdle
SpecChunk == InitChunk /\ [][ChunkNext]_vars

InitProp ==
    PropInit /\ AssetIdle /\ BlitIdle /\ BufIdle /\ CacheIdle /\ ChunkIdle /\ InternIdle /\ IterIdle /\ OverlayIdle /\ ParseIdle /\ PixelIdle /\ RegionIdle /\ SpriteIdle /\ ViewIdle /\ WalkIdle /\ DivIdle
SpecProp == InitProp /\ [][PropNext]_vars

InitDiv ==
    DivInit /\ AssetIdle /\ BlitIdle /\ BufIdle /\ CacheIdle /\ ChunkIdle /\ InternIdle /\ IterIdle /\ OverlayIdle /\ ParseIdle /\ PixelIdle /\ PropIdle /\ RegionIdle /\ SpriteIdle /\ ViewIdle /\ WalkIdle
SpecDiv == InitDiv /\ [][DivNext]_vars

\* the lookups of the four lock-guarded caches, one cache family per
\* behaviour; the threads of the other families are parked
SpriteParked ==
    /\ txCache = << >> /\ txLock = NoLock /\ spCache = << >> /\ spLock = NoLock
    /\ objects = << >> /\ spStats = NoStats
    /\ thr = [t \in SpThreads |-> [NoThread EXCEPT !.pc = "parked"]]
AssetParked ==
    /\ acAssets = << >> /\ acTextures = << >> /\ acMutex = FreeMutex
    /\ acTexMutex = FreeMutex /\ acObjects = 0 /\ acCreated = << >>
    /\ acThr = [t \in AcThreads |-> [AcNoThread EXCEPT !.pc = "parked"]]
InternParked ==
    /\ inReady = FALSE /\ inMap = << >> /\ inLock = NoLock /\ inAllocs = << >>
    /\ inReturned = {} /\ inInserted = << >>
    /\ inThr = [t \in InThreads |-> [InNoThread EXCEPT !.pc = "parked"]]

InitLocks ==
    /\ \/ SpriteInit /\ AssetParked /\ InternParked
       \/ SpriteParked /\ AssetInit /\ InternParked
       \/ SpriteParked /\ AssetParked /\ InternInit
    /\ OverlayIdle /\ ParseIdle /\ BufIdle /\ RegionIdle /\ WalkIdle /\ CacheIdle
    /\ PixelIdle /\ BlitIdle /\ ViewIdle /\ IterIdle /\ ChunkIdle /\ PropIdle /\ DivIdle

LocksNext == SpriteNext \/ AssetNext \/ InternNext

SpecLocks == InitLocks /\ [][LocksNext]_vars

(***************************************************************************)
(* Claims.                                                                 *)
(***************************************************************************)
\* the vector width of the kernel the dispatcher chose
VectorWidth == IF ovFeature = "avx2" THEN CHUNK_LEN ELSE 4
OverlayEnded == ovPc \in {"done", "panic", "fault"}
SliceBytes(mem) == SubSeq(mem, 1, ovLen * Channels(ovFmt))

\* C1: a SIMD kernel consumes only whole groups of N pixels: the count it
\* returns is a multiple of N and at most the slice length, it touches no
\* pixel at or past the end of the slice, and once the dispatcher has run the
\* scalar kernel on the rest every pixel of the slice was blended exactly once.
C1_WholeGroupsThenScalar ==
    /\ (ovFeature # "none" /\ ovN # -1) => (ovN % VectorWidth = 0 /\ ovN <= ovLen)
    /\ ovSt.touched <= ovLen
    /\ OverlayEnded => \A p \in 0..(ovLen - 1) : ovSt.blended[p] = 1

\* C2: whichever kernel the dispatcher picks, the destination slice ends up
\* byte for byte as the scalar implementation leaves it.
C2_KernelsByteIdentical ==
    OverlayEnded => SliceBytes(ovSt.dst) = SliceBytes(ScalarReference)

\* C3: in a chunk that parse returned, every block of every section has a
\* state index inside the section's block palette, a biome index inside its
\* biome palette, and block and sky light of at most 15.  (Stated for the
\* sections whose palettes are not empty: an empty palette admits no index.)
C3_IndicesWithinPalettes ==
    pcResult.status = "ok" =>
        \A k \in 1..Len(pcResult.sections) :
            LET sec == pcResult.sections[k]
            IN  (sec.block_palette > 0 /\ sec.biome_palette > 0) =>
                \A i \in 0..(SECTION_BLOCK_COUNT - 1) :
                    /\ sec.state_index[i] < sec.block_palette
                    /\ sec.biome_index[i] < sec.biome_palette
                    /\ sec.block[i] <= 15
                    /\ sec.sky[i] <= 15

\* C4: every ImageBuf that was obtained is backed by at least
\* width * height * channels subpixels, channels() and pixels() never slice
\* past the end of the buffer, and from_raw returns None for a buffer shorter
\* than width * height * channels.
C4_BufferHoldsImage ==
    /\ ibImage.present =>
          Len(ibImage.v.data) >= ibImage.v.width * ibImage.v.height * ibImage.v.channels
    /\ ibAccess # "panic"

\* C5: a call on a location record whose offset_sectors (upper 24 bits) is
\* zero reports the chunk absent without seeking or reading, whatever the
\* sector_count byte; a record with a non-zero offset is read at byte offset
\* offset_sectors * 4096.
C5_ZeroOffsetIsAbsent ==
    rgCall.index # -1 =>
        IF rgCall.record \div 256 = 0
        THEN rgCall.result = "absent" /\ rgCall.seek = -1 /\ rgCall.reads = 0
        ELSE rgCall.seek = (rgCall.record \div 256) * SECTOR_SIZE

SinkAlwaysTrue == \A i \in 1..Len(drSink) : drSink[i].keep

\* C6: in a render_map_column call whose sink has always returned true, no
\* chunk coordinate is rendered into the rolling buffer twice: a chunk
\* rendered for one row is never rendered again for a later row.
C6_ChunkRenderedOnce ==
    SinkAlwaysTrue =>
        \A i, j \in 1..Len(drRendered) :
            i # j => drRendered[i].coords # drRendered[j].coords

\* a whole column was walked with a sink that never stops, and chunks were
\* rendered for more than one row
C6_Witness ==
    /\ drPc = "ok" /\ SinkAlwaysTrue
    /\ Len(drSink) = max_row(drWorld.regions) - min_row(drWorld.regions) + 1
    /\ \E i, j \in 1..Len(drRendered) : drRendered[i].row # drRendered[j].row

\* C7: the sink receives the rows of row_range in ascending order, each once;
\* once it has returned false it is never called again, no chunk is rendered
\* for a later row, and the call returns Ok(()).
C7_SinkFalseStops ==
    /\ \A i \in 1..Len(drSink) : drSink[i].row = min_row(drWorld.regions) + i - 1
    /\ \A i \in 1..(Len(drSink) - 1) : drSink[i].keep
    /\ (Len(drSink) > 0 /\ ~drSink[Len(drSink)].keep) =>
          /\ drPc = "ok"
          /\ \A i \in 1..Len(drRendered) : drRendered[i].row <= drSink[Len(drSink)].row

\* the sink returned false for a row in the middle of the column, after
\* chunks had been rendered
C7_Witness ==
    /\ Len(drSink) >= 3 /\ ~drSink[Len(drSink)].keep
    /\ drSink[Len(drSink)].row < max_row(drWorld.regions)
    /\ Len(drRendered) > 0
    /\ drPc = "ok"

\* the calls of get_tinted with key `key` that have returned Ok
ReturnedSprite(key) ==
    { t \in SpThreads : thr[t].op = "get_tinted" /\ thr[t].key = key /\ thr[t].status = "ok" }

\* the calls of TextureCache::get with name `name` that have returned Ok
ReturnedTexture(name) ==
    { t \in SpThreads :
        thr[t].op = "texture_get" /\ thr[t].key = << name >> /\ thr[t].status = "ok" }

\* C8 as stated: under every interleaving of get_tinted calls with the same
\* key, the partial sprite for the key is computed exactly once.
C8_ComputedExactlyOnce ==
    \A key \in SpriteKeys :
        /\ spStats.computed[key] <= 1
        /\ ReturnedSprite(key) # {} => spStats.computed[key] = 1

\* C8 as amended: the partial sprite for a key is computed at least once
\* before any call for it returns, and at most once by each calling thread
\* (threads that miss the optimistic read together each compute it, with no
\* lock held); exactly one of the computed sprites is stored, and every call
\* returns the stored one.
C8_ComputedOncePerThread ==
    \A key \in SpriteKeys :
        /\ spStats.computed[key] <= SpriteThreads
        /\ spStats.sp_inserted[key] <= 1
        /\ \A t \in ReturnedSprite(key) :
            /\ spStats.computed[key] >= 1
            /\ spStats.sp_inserted[key] = 1
            /\ thr[t].result = spCache[key]

\* two threads computed the sprite of the same key, and both calls returned
C8_Witness ==
    \E key \in SpriteKeys :
        /\ spStats.computed[key] = 2
        /\ \E t, u \in ReturnedSprite(key) : t # u /\ thr[t].pc = "done" /\ thr[u].pc = "done"

\* C9: every call of TextureCache::get or get_tinted that returns Ok returns
\* the handle stored for its key, which holds what the key names and is the
\* first and only one ever inserted for the key: no get replaces an entry.
C9_OneStoredHandle ==
    /\ \A name \in TextureNames :
        /\ spStats.tx_inserted[name] <= 1
        /\ \A t \in ReturnedTexture(name) :
            /\ thr[t].result # 0 /\ thr[t].result = txCache[name]
            /\ objects[thr[t].result] = << name >>
    /\ \A key \in SpriteKeys :
        /\ spStats.sp_inserted[key] <= 1
        /\ \A t \in ReturnedSprite(key) :
            /\ thr[t].result # 0 /\ thr[t].result = spCache[key]
            /\ objects[thr[t].result] = key

\* two threads each loaded the same texture, and both calls returned the
\* same handle
C9_Witness ==
    \E name \in TextureNames :
        /\ spStats.loaded[name] = 2
        /\ \E t, u \in ReturnedTexture(name) :
            t # u /\ thr[t].result = thr[u].result /\ thr[t].result = txCache[name]

\* the get_or_create_asset calls with key `key` that have returned
ReturnedAsset(key) ==
    { t \in AcThreads :
        acThr[t].op = "get_asset" /\ acThr[t].key = key /\ acThr[t].status = "returned" }

\* C10: for concurrent get_or_create_asset calls with equal keys the creation
\* function runs at most once for the key, and every caller returns the
\* cached result: the handle of the one sprite created, or None.
C10_CreatedOncePerKey ==
    \A key \in AssetKeys :
        /\ acCreated[key] <= 1
        /\ \A t \in ReturnedAsset(key) :
            /\ acCreated[key] = 1
            /\ acAssets[key].present
            /\ acThr[t].result = acAssets[key].value
            /\ (key \in {"stone", "water"}) = (acThr[t].result # 0)

\* two threads have returned from calls with the same key, with a handle to
\* the same sprite, which was created once
C10_Witness ==
    /\ \E t, u \in ReturnedAsset("stone") :
        t # u /\ acThr[t].result = acThr[u].result /\ acThr[t].result # 0
    /\ acCreated["stone"] = 1

\* C11: under every interleaving of intern_str calls, any two calls made with
\* equal strings return the same allocation, every returned allocation holds
\* the string asked for and is the one stored in the interner's map, and the
\* map gets at most one entry per distinct string.
C11_EqualStringsShareAllocation ==
    /\ \A p, q \in inReturned : p[3] = q[3] => p[4] = q[4]
    /\ \A p \in inReturned : inAllocs[p[4]] = p[3] /\ inMap[p[3]] = p[4]
    /\ \A s \in InternStrings : inInserted[s] <= 1

\* two threads raced on the same string: one inserted it, the other found it
\* at the re-check under the write lock, and both have returned
C11_Witness ==
    \E t, u \in InThreads :
        /\ t # u /\ inThr[t].pc = "done" /\ inThr[u].pc = "done"
        /\ inThr[t].key = inThr[u].key
        /\ inThr[t].via = "insert" /\ inThr[u].via = "recheck"
        /\ inThr[t].result = inThr[u].result

\* C12: ChunkCache::get with coords outside the ChunkBounds (x or z outside
\* the half-open range min..max) returns None, makes no region-file access,
\* and leaves the cache contents and their recency order as they were.
C12_OutOfBoundsGetTouchesNothing ==
    LET b == ccWorld.bounds
        c == ccCall.coords
    IN  (/\ ccGets >= 1 /\ b.minmax
         /\ \/ c[1] < b.min[1] \/ c[1] >= b.max[1]
            \/ c[2] < b.min[2] \/ c[2] >= b.max[2])
        => /\ ccCall.chunk = None
           /\ ccLoads = ccCall.loads_before
           /\ ccCache = ccCall.cache_before

\* a get just outside the upper bound, on a cache that holds two entries
C12_Witness ==
    /\ ccGets >= 3 /\ ccWorld.bounds.minmax
    /\ ccCall.coords[1] = ccWorld.bounds.max[1]
    /\ ccCall.coords[2] = ccWorld.bounds.min[2]
    /\ Len(ccCall.cache_before) = 2
    /\ ccCall.chunk = None

\* C13: for an opaque background pixel and any foreground pixel, the
\* pixel-level overlay_final keeps the background colour when fg.a = 0, takes
\* the foreground colour when fg.a = 255, and otherwise sets each colour
\* channel to (num + ((num + 257) >> 8)) >> 8 with
\* num = fg.c * fg.a + bg.c * (255 - fg.a), in plain integers; the
\* destination alpha is not modified.
C13_OverlayFinalIsIntegerFormula ==
    (pxPc = "done" /\ pxBg[4] = 255) =>
        /\ pxOut[4] = pxBg[4]
        /\ \A c \in 1..3 :
            LET a == pxFg[4]
                num == pxFg[c] * a + pxBg[c] * (255 - a)
            IN  pxOut[c] = IF a = 0 THEN pxBg[c]
                           ELSE IF a = 255 THEN pxFg[c]
                           ELSE (num + ((num + 257) \div 256)) \div 256

\* a translucent foreground over an opaque background gave a colour that is
\* neither of the two
C13_Witness ==
    /\ pxPc = "done" /\ pxBg[4] = 255 /\ pxFg[4] \in 1..254
    /\ pxOut[1] # pxBg[1] /\ pxOut[1] # pxFg[1]
    /\ pxBg[1] = 255 /\ pxFg[1] = 1

\* the raw index (1-based) of pixel (x, y) of an image in its buffer
RawIndexOf(img, x, y) == raw_pixel_offset(img) + y * raw_pixel_row_stride(img) + x + 1

ComposedInsideRoot ==
    /\ vwArgs.a + vwArgs.c + vwArgs.W <= vwRoot.width
    /\ vwArgs.b + vwArgs.d + vwArgs.H <= vwRoot.height

\* C15: when the composed rectangle lies inside root,
\* root.view(a, b, w, h).view(c, d, W, H) has the same pixel at every (x, y)
\* with x < W and y < H as root.view(a + c, b + d, W, H), namely root's pixel
\* at (a + c + x, b + d + y), and the same raw pixel offset and row stride.
C15_ViewsCompose ==
    (vwPc \in {"done", "got"} /\ ComposedInsideRoot) =>
        /\ \A x \in 0..(vwArgs.W - 1), y \in 0..(vwArgs.H - 1) :
            /\ get_pixel(vwSecond.v, x, y) = get_pixel(vwDirect.v, x, y)
            /\ get_pixel(vwSecond.v, x, y)
                = Some(vwRoot.pixels[(vwArgs.b + vwArgs.d + y) * vwRoot.width
                                     + vwArgs.a + vwArgs.c + x + 1])
        /\ raw_pixel_offset(vwSecond.v) = raw_pixel_offset(vwDirect.v)
        /\ raw_pixel_row_stride(vwSecond.v) = raw_pixel_row_stride(vwDirect.v)

\* a view at a non-zero position inside a view at a non-zero position, the
\* composed rectangle inside root and not empty
C15_Witness ==
    /\ vwPc = "done" /\ ComposedInsideRoot
    /\ vwArgs.a = 1 /\ vwArgs.b = 1 /\ vwArgs.c = 1 /\ vwArgs.d = 1
    /\ vwArgs.W = 1 /\ vwArgs.H = 1
    /\ raw_pixel_offset(vwSecond.v) = 2 * vwRoot.width + 2

\* C16: an ImageView gives no access outside its own rectangle: get_pixel is
\* None for x >= the view's width or y >= its height, and a view made from a
\* view lies inside that view's rectangle.
C16_ViewConfinesAccess ==
    /\ vwGot.on # "none" =>
        LET v == IF vwGot.on = "first" THEN vwFirst.v ELSE vwSecond.v
        IN  (vwGot.x >= v.width \/ vwGot.y >= v.height) => vwGot.pixel = None
    /\ vwSecond.present =>
        /\ vwSecond.v.left >= vwFirst.v.left
        /\ vwSecond.v.top >= vwFirst.v.top
        /\ vwSecond.v.left + vwSecond.v.width <= vwFirst.v.left + vwFirst.v.width
        /\ vwSecond.v.top + vwSecond.v.height <= vwFirst.v.top + vwFirst.v.height

\* the items a complete iteration gives: one per non-zero location record,
\* in ascending index order, a chunk or an error as reading it turns out
RECURSIVE ItemsFrom(_)
ItemsFrom(indices) ==
    IF indices = {} THEN << >>
    ELSE LET i == CHOOSE j \in indices : \A k \in indices : j <= k
         IN  << [index |-> i,
                 item |-> get_raw_chunk_by_index(itChunks, itFile, i).result] >>
             \o ItemsFrom(indices \ {i})

EndOfIteration == [index |-> REGION_CHUNK_COUNT, item |-> "none"]

CeilLog2(n) == CHOOSE b \in 0..30 : Pow2(b) >= n /\ \A c \in 0..(b - 1) : Pow2(c) < n

\* the b-bit field of a word at a bit offset counted from the least
\* significant bit, as a number
RECURSIVE BitsValue(_, _, _)
BitsValue(word, offset, b) ==
    IF b = 0 THEN 0
    ELSE word[offset + b - 1] * Pow2(b - 1) + BitsValue(word, offset, b - 1)

\* cell k of a packed array: the b-bit field at bit offset b * (k mod p) of
\* word k div p, with p = 64 div b
PackedIndex(data, b, k) ==
    LET p == U64_BITS \div b
    IN  BitsValue(Words[data[(k \div p) + 1]], b * (k % p), b)

\* C17: in a section with a block palette of n >= 1 entries and packed data,
\* the state index of block k is the b-bit field at bit offset b * (k mod p),
\* from the least significant bit, of word k div p, with
\* b = max(4, ceil(log2 n)) and p = 64 div b; the biome indices are decoded the
\* same way over the 64 cells with b = ceil(log2 n); without data every index
\* is zero.  (Cells past the end of a short array have no word; for the biomes
\* b = 0 gives no p, so n >= 2 there; a SkyLight array, when there is one, has
\* its 2048 bytes.)
C17_IndicesAreLsbFirstFields ==
    (pcPc = "returned" /\ pcNbt.deserializes /\ Len(pcNbt.sections) = 1
     /\ pcNbt.sections[1].block_palette >= 1
     /\ (pcNbt.sections[1].biome_data.present => pcNbt.sections[1].biome_palette >= 2)
     /\ (pcNbt.sections[1].sky_light.present
            => Len(pcNbt.sections[1].sky_light.v) = SKY_LIGHT_LEN)) =>
        LET nbt == pcNbt.sections[1]
            bb == Max(4, CeilLog2(nbt.block_palette))
            bi == CeilLog2(nbt.biome_palette)
        IN  /\ pcResult.status = "ok"
            /\ \A k \in 0..(SECTION_BLOCK_COUNT - 1) :
                pcResult.sections[1].state_index[k] =
                    IF ~nbt.block_data.present THEN 0
                    ELSE IF k \div (U64_BITS \div bb) >= Len(nbt.block_data.v) THEN 0
                    ELSE PackedIndex(nbt.block_data.v, bb, k)
            /\ \A k \in 0..(SECTION_BLOCK_COUNT - 1) :
                pcResult.sections[1].biome_index[k] =
                    LET cell == to_biome_index(k)
                    IN  IF ~nbt.biome_data.present THEN 0
                        ELSE IF cell \div (U64_BITS \div bi) >= Len(nbt.biome_data.v) THEN 0
                        ELSE PackedIndex(nbt.biome_data.v, bi, cell)

\* a 17-entry block palette (5 bits, 12 indices per word, 4 bits of padding)
\* and a 3-entry biome palette over mixed data: block 12 comes from the
\* second word, and indices are not all zero
C17_Witness ==
    /\ pcPc = "returned" /\ pcResult.status = "ok" /\ Len(pcNbt.sections) = 1
    /\ pcNbt.sections[1].block_palette = 17 /\ pcNbt.sections[1].biome_palette = 3
    /\ pcNbt.sections[1].block_data.present
    /\ Len(pcNbt.sections[1].block_data.v) = FULL_DATA_WORDS
    /\ pcResult.sections[1].state_index[12]
        = PackedIndex(pcNbt.sections[1].block_data.v, 5, 12)
    /\ \E k \in 12..23 : pcResult.sections[1].state_index[k] \notin {0, 31}
    /\ \E k \in 0..(SECTION_BLOCK_COUNT - 1) : pcResult.sections[1].biome_index[k] # 0

\* blocks per horizontal layer of a section
LAYER_BLOCKS == CHUNK_SIZE * CHUNK_SIZE

\* C18: in a parsed chunk (sections stored bottom to top), a section with
\* SkyLight data carries that data nibble for nibble; a section without has
\* every one of its 16 layers equal to the bottom layer of the section above
\* it as parsed, so a run of data-less sections all carry the same layer; a
\* data-less topmost section has sky light 15 at every block.
C18_SkyLightInheritedTopDown ==
    (pcPc = "returned" /\ pcResult.status = "ok") =>
        \A k \in 1..Len(pcNbt.sections) :
            LET data == pcNbt.sections[k].sky_light
                sky == pcResult.sections[k].sky
            IN  \A i \in 0..(SECTION_BLOCK_COUNT - 1) :
                    sky[i] = IF data.present
                             THEN (IF i % 2 = 0 THEN data.v[(i \div 2) + 1] % 16
                                   ELSE data.v[(i \div 2) + 1] \div 16)
                             ELSE IF k = Len(pcNbt.sections) THEN 15
                             ELSE pcResult.sections[k + 1].sky[i % LAYER_BLOCKS]

\* three sections, the top one with data and the two below without: both
\* carry the top section's bottom layer, which is not one value throughout
\* and differs from that section's top layer
C18_Witness ==
    /\ pcPc = "returned" /\ pcResult.status = "ok" /\ Len(pcNbt.sections) = 3
    /\ pcNbt.sections[3].sky_light.present
    /\ ~pcNbt.sections[2].sky_light.present /\ ~pcNbt.sections[1].sky_light.present
    /\ pcResult.sections[1].sky = pcResult.sections[2].sky
    /\ pcResult.sections[1].sky[0] # pcResult.sections[1].sky[1]
    /\ pcResult.sections[1].sky[1] # pcResult.sections[3].sky[15 * LAYER_BLOCKS + 1]
    /\ pcResult.sections[1].sky[15 * LAYER_BLOCKS + 1] = pcResult.sections[3].sky[1]

\* the world of one region (0, 0) holding one chunk, at CCoords (0, 0)
SingleChunkWorld == [regions |-> {<<0, 0>>}, layout |-> "single", bounds |-> Unbounded]

\* the rows of the tiles handed to the sink that had drawn pixels
TilesWithContent == { drSink[i].row : i \in { j \in 1..Len(drSink) : drSink[j].content } }

\* the column has been walked to the end of row_range with a sink that never
\* stops
SingleChunkColumnDone ==
    /\ drWorld = SingleChunkWorld
    /\ drPc = "ok"
    /\ SinkAlwaysTrue

CeilDiv(a, b) == (a + b - 1) \div b

C21_SectionOffsetsStayInRaster ==
    crSections = WORLD_HEIGHT \div CHUNK_SIZE =>
        /\ crPc # "panic"
        /\ \A k \in 1..Len(crDrawn) :
            /\ crDrawn[k].i = k - 1
            /\ crDrawn[k].y_offset + ((crDrawn[k].i * SECTION_RENDER_HEIGHT) \div 2)
                    + SECTION_RENDER_HEIGHT = CHUNK_RENDER_HEIGHT
            /\ 0 <= crDrawn[k].y_offset
            /\ crDrawn[k].y_offset + SECTION_RENDER_HEIGHT <= CHUNK_RENDER_HEIGHT

C21_Witness ==
    /\ crSections = WORLD_HEIGHT \div CHUNK_SIZE
    /\ crPc = "ok"
    /\ Len(crDrawn) = crSections
    /\ crDrawn[1].y_offset + SECTION_RENDER_HEIGHT = CHUNK_RENDER_HEIGHT
    /\ crDrawn[crSections].y_offset = 0

\* a full chunk drawn at (0, 0) on an image of just the chunk raster's size
FullChunkDrawn ==
    /\ crSections = WORLD_HEIGHT \div CHUNK_SIZE
    /\ crPc = "ok"
    /\ crAt = << 0, 0 >>
    /\ crOut = << CHUNK_RENDER_WIDTH, CHUNK_RENDER_HEIGHT >>

\* the box round the sprites of every section drawn
DrawnBox ==
    LET boxes == { crDrawn[k].sprites.v.box :
                    k \in { j \in 1..Len(crDrawn) : crDrawn[j].sprites.present } }
    IN  << SetMin({ b[1] : b \in boxes }), SetMin({ b[2] : b \in boxes }),
           SetMax({ b[3] : b \in boxes }), SetMax({ b[4] : b \in boxes }) >>

\* C22 as stated: the raster of a full chunk is 384 wide and 4896 high
C22_ChunkRasterIs384By4896 ==
    FullChunkDrawn =>
        /\ CHUNK_RENDER_WIDTH = 384 /\ CHUNK_RENDER_HEIGHT = 4896
        /\ DrawnBox = << 0, 0, 384, 4896 >>

\* C22: the raster required to render one full chunk (16 x 16 blocks, 384
\* blocks tall) is 384 pixels wide and 4800 pixels high: CHUNK_RENDER_WIDTH =
\* 384, CHUNK_RENDER_HEIGHT = 4800, and the sprites of the 24 sections drawn at
\* (0, 0), none skipped, span exactly that box
C22_ChunkRasterIs384By4800 ==
    FullChunkDrawn =>
        /\ CHUNK_RENDER_WIDTH = 384 /\ CHUNK_RENDER_HEIGHT = 4800
        /\ \A k \in 1..Len(crDrawn) :
            crDrawn[k].sprites.present /\ ~crDrawn[k].sprites.v.skipped
        /\ DrawnBox = << 0, 0, CHUNK_RENDER_WIDTH, CHUNK_RENDER_HEIGHT >>

C22_Witness ==
    /\ FullChunkDrawn
    /\ Len(crDrawn) = 24
    /\ crDrawn[24].sprites.v.box = << 0, 0, 384, 384 >>
    /\ crDrawn[1].sprites.v.box[4] = 4800

\* the keys of the items are strictly ascending
StrictlyAscending(items) ==
    \A k \in 1..(Len(items) - 1) :
        StrCmp(ItemKey(items[k]), ItemKey(items[k + 1])) = "Less"

\* C23: after any sequence of insert, remove, retain and clear (and clone), the
\* items of a PropList are in strictly ascending key order, so no key is there
\* twice; get and contains_key find each key that is in the list, with the
\* value most recently inserted for it, and no other key; remove returns true
\* exactly when the key was in the list
C23_ItemsStayAscending ==
    plOps >= 0 =>
        /\ \A l \in PropLists :
            /\ StrictlyAscending(plItems[l])
            /\ \A key \in PropKeys :
                /\ get(plItems[l], key) = plLast[l][key]
                /\ contains_key(plItems[l], key) = plLast[l][key].present
            /\ Len(plItems[l]) = Cardinality({ key \in PropKeys : plLast[l][key].present })
        /\ plCall.op = "remove" =>
            /\ plCall.ret = plCall.had
            /\ ~contains_key(plItems[plCall.list], plCall.key)

\* the key "ab" went in last, between "a" and "b", over an allocated item
C23_Witness ==
    /\ plCall.op = "insert" /\ plCall.key = << 97, 98 >> /\ ~plCall.had
    /\ Len(plItems[plCall.list]) = 3
    /\ ItemKey(plItems[plCall.list][2]) = << 97, 98 >>
    /\ \E k \in 1..3 : plItems[plCall.list][k].kind = "Allocated"

\* C24: two PropLists are equal exactly when they hold the same key -> value
\* pairs, and equal PropLists feed the same input to the hasher, whatever the
\* order of insertion, whether a value was updated in place, whether a list is
\* a clone, and whether an item is stored inline or allocated
C24_EqualityIsByContent ==
    plOps >= 0 =>
        /\ PropListEq(plItems[1], plItems[2]) <=> plLast[1] = plLast[2]
        /\ PropListEq(plItems[1], plItems[2])
            => PropListHash(plItems[1], << >>) = PropListHash(plItems[2], << >>)

\* equal lists of which one holds a key inline that the other holds allocated
C24_Witness ==
    /\ plOps >= 0
    /\ PropListEq(plItems[1], plItems[2])
    /\ Len(plItems[1]) > 0
    /\ \E k \in 1..Len(plItems[1]) : plItems[1][k].kind # plItems[2][k].kind

\* where the raster of chunk c lies on the map of all tiles, tile (0, 0)
\* having its top left pixel at (0, 0): one step east or south moves it by
\* CHUNK_OFFSET_X or CHUNK_OFFSET_Z
RasterOrigin(c) ==
    << CHUNK_OFFSET_X[1] * c[1] + CHUNK_OFFSET_Z[1] * c[2],
       CHUNK_OFFSET_X[2] * c[1] + CHUNK_OFFSET_Z[2] * c[2] >>

\* the top left pixel of tile (col, row) on that map
TileOrigin(col, row) == << TILE_BUFFER_WIDTH * col, SECTION_RENDER_HEIGHT * row >>

\* the raster of chunk c and the rectangle of tile (col, row) share a pixel
RasterMeetsTile(c, col, row) ==
    LET o == RasterOrigin(c)
        t == TileOrigin(col, row)
    IN  /\ o[1] < t[1] + TILE_BUFFER_WIDTH /\ t[1] < o[1] + CHUNK_RENDER_WIDTH
        /\ o[2] < t[2] + SECTION_RENDER_HEIGHT /\ t[2] < o[2] + CHUNK_RENDER_HEIGHT

\* the chunks of the dimension that the cache gives to the walker
FullyGeneratedChunks(world) ==
    { c \in UNION { { << to_chunk_coords(r)[1] + lx, to_chunk_coords(r)[2] + lz >> :
                        lx \in 0..(REGION_SIZE - 1), lz \in 0..(REGION_SIZE - 1) } :
                    r \in world.regions } :
        LoadChunk(world, c).present }

\* every chunk drawn so far was drawn where its raster lies on the map, as
\* seen from the tile of its row
RenderedWhereTheyLie ==
    \A k \in 1..Len(drRendered) :
        drRendered[k].image_offset[1]
            = RasterOrigin(drRendered[k].coords)[1] - TileOrigin(drCol, drRendered[k].row)[1]
        /\ drRendered[k].image_offset[2]
            = RasterOrigin(drRendered[k].coords)[2] - TileOrigin(drCol, drRendered[k].row)[2]

\* C25: with unbounded ChunkBounds and a sink that always returns true, when
\* the tile (col, row) has been handed to the sink, every fully generated
\* chunk whose raster meets the rectangle of that tile has been rendered into
\* the buffer, for that row or an earlier one, at the place where its raster
\* lies; and no chunk is drawn above the top of the tile of the row it is
\* rendered for, where the tiles already handed out lie
C25_TileCompleteWhenEmitted ==
    (drPc # "idle" /\ drWorld.bounds = Unbounded /\ SinkAlwaysTrue /\ Len(drSink) > 0) =>
        LET row == drSink[Len(drSink)].row
        IN  /\ \A c \in FullyGeneratedChunks(drWorld) :
                RasterMeetsTile(c, drCol, row) =>
                    \E k \in 1..Len(drRendered) :
                        drRendered[k].coords = c /\ drRendered[k].row <= row
            /\ RenderedWhereTheyLie
            /\ \A k \in 1..Len(drRendered) :
                /\ drRendered[k].image_offset[2] >= 0
                /\ RasterOrigin(drRendered[k].coords)[2]
                     >= TileOrigin(drCol, drRendered[k].row)[2]

\* a tile of a column of negative number has been handed out that shows
\* chunks rendered for 13 rows before it and chunks of its own row
C25_Witness ==
    /\ drPc # "idle" /\ drWorld.bounds = Unbounded /\ SinkAlwaysTrue /\ Len(drSink) > 13
    /\ drCol < 0
    /\ LET row == drSink[Len(drSink)].row
       IN  /\ \E k \in 1..Len(drRendered) :
                /\ drRendered[k].row = row - 13
                /\ RasterMeetsTile(drRendered[k].coords, drCol, row)
           /\ \E k \in 1..Len(drRendered) : drRendered[k].row = row

\* the tile columns and tile rows that the raster of chunk c reaches into
RasterCols(c) ==
    (RasterOrigin(c)[1] \div TILE_BUFFER_WIDTH)
        ..((RasterOrigin(c)[1] + CHUNK_RENDER_WIDTH - 1) \div TILE_BUFFER_WIDTH)
RasterRows(c) ==
    (RasterOrigin(c)[2] \div SECTION_RENDER_HEIGHT)
        ..((RasterOrigin(c)[2] + CHUNK_RENDER_HEIGHT - 1) \div SECTION_RENDER_HEIGHT)

\* C26: with unbounded ChunkBounds and a sink that always returns true, once a
\* column has been walked: the raster of every fully generated chunk of the
\* dimension lies in tile columns of col_range and tile rows of row_range
\* (also for regions at negative coordinates); a chunk that reaches into the
\* column was rendered there exactly once, where its raster lies, with its
\* CHUNK_RENDER_HEIGHT rows between the top and the bottom edge of the buffer;
\* and every tile row that the raster reaches was handed to the sink, with
\* drawn pixels, no earlier than the row the chunk was rendered for
C26_EveryRasterFullyEmitted ==
    (drPc = "ok" /\ drWorld.bounds = Unbounded /\ SinkAlwaysTrue) =>
        /\ RenderedWhereTheyLie
        /\ \A c \in FullyGeneratedChunks(drWorld) :
            /\ RasterCols(c) \subseteq min_col(drWorld.regions)..max_col(drWorld.regions)
            /\ RasterRows(c) \subseteq min_row(drWorld.regions)..max_row(drWorld.regions)
            /\ drCol \in RasterCols(c) =>
                /\ Cardinality({ k \in 1..Len(drRendered) : drRendered[k].coords = c }) = 1
                /\ \A k \in 1..Len(drRendered) :
                    drRendered[k].coords = c =>
                        /\ drRendered[k].image_offset[2] >= 0
                        /\ drRendered[k].image_offset[2] + CHUNK_RENDER_HEIGHT
                             <= TILE_BUFFER_HEIGHT
                        /\ \A row \in RasterRows(c) :
                            /\ drRendered[k].row <= row
                            /\ \E i \in 1..Len(drSink) :
                                drSink[i].row = row /\ drSink[i].content

\* a column of negative number walked to its end, in which a chunk of a
\* region at negative coordinates was drawn down to the bottom edge of the
\* buffer and a chunk reaches into two tile columns
C26_Witness ==
    /\ drPc = "ok" /\ drWorld.bounds = Unbounded /\ SinkAlwaysTrue
    /\ drCol < 0
    /\ \E k \in 1..Len(drRendered) :
        /\ drRendered[k].coords[1] < 0 /\ drRendered[k].coords[2] < 0
        /\ drRendered[k].image_offset[2] + CHUNK_RENDER_HEIGHT = TILE_BUFFER_HEIGHT
    /\ \E k \in 1..Len(drRendered) :
        Cardinality(RasterCols(drRendered[k].coords)) = 2
    /\ Len(drSink) = max_row(drWorld.regions) - min_row(drWorld.regions) + 1

\* C27: for every a from 0 to 255 * 255, the largest numerator of a blend,
\* u16_div_by_255 gives the quotient a div 255 rounded down, neither sum of
\* the expression exceeds 65535, and the saturating u16x16_div_by_255 of the
\* SIMD kernels gives the same
C27_DivBy255ExactWithoutOverflow ==
    (dvPc = "done" /\ dvA <= 255 * 255) =>
        /\ dvScalar = dvA \div 255
        /\ dvSums[1] <= Pow2(16) - 1 /\ dvSums[2] <= Pow2(16) - 1
        /\ dvSimd = dvScalar

\* the largest numerator, whose quotient is 255
C27_Witness ==
    /\ dvPc = "done" /\ dvA = 255 * 255
    /\ dvScalar = 255 /\ dvSimd = 255
    /\ dvSums = << 255 * 255 + 257, 255 * 256 >>

\* the threads that hold a guard of an RwLock
Holders(lock) == lock.readers \cup (IF lock.writer = 0 THEN {} ELSE {lock.writer})

\* the lock requests of the four caches
LockRequests == {"sp_read_lock", "sp_write_lock", "tx_read_lock", "tx_write_lock",
                 "read_lock", "write_lock", "a_lock", "t_lock"}

\* a thread is inside a call
InCall(pc) == pc \notin {"idle", "done", "panicked", "parked"}

\* a thread inside a call can take its next step: it is not at a lock
\* request, or the lock it asks for can be taken
SpriteRunnable(pc) ==
    /\ InCall(pc)
    /\ pc = "sp_read_lock" => CanRead(spLock)
    /\ pc = "sp_write_lock" => CanWrite(spLock)
    /\ pc = "tx_read_lock" => CanRead(txLock)
    /\ pc = "tx_write_lock" => CanWrite(txLock)
InternRunnable(pc) ==
    /\ InCall(pc)
    /\ pc = "read_lock" => CanRead(inLock)
    /\ pc = "write_lock" => CanWrite(inLock)
AssetRunnable(pc) ==
    /\ InCall(pc)
    /\ pc = "a_lock" => CanLock(acMutex)
    /\ pc = "t_lock" => CanLock(acTexMutex)

\* C28: in the lookups of TextureCache, PartialSpriteCache, the Interner and
\* the asset cache a thread that holds a guard of an RwLock or of the
\* textures mutex stands at no lock request (so the read guard is gone before
\* the write lock of the same cache is requested, and no guard of one cache
\* is held while the other is asked for), the only request a holder of the
\* assets mutex makes is for the textures mutex (one fixed order), and
\* whenever threads are inside a call one of them can take its next step
C28_LookupsNeverDeadlock ==
    /\ \A t \in SpThreads :
        thr[t].pc \in LockRequests =>
            t \notin Holders(spLock) /\ t \notin Holders(txLock)
    /\ \A t \in InThreads : inThr[t].pc \in LockRequests => t \notin Holders(inLock)
    /\ \A t \in AcThreads :
        /\ acThr[t].pc \in LockRequests => acTexMutex.holder # t
        /\ acThr[t].pc = "a_lock" => acMutex.holder # t
    /\ (\E t \in SpThreads : InCall(thr[t].pc))
           => \E t \in SpThreads : SpriteRunnable(thr[t].pc)
    /\ (\E t \in InThreads : InCall(inThr[t].pc))
           => \E t \in InThreads : InternRunnable(inThr[t].pc)
    /\ (\E t \in AcThreads : InCall(acThr[t].pc))
           => \E t \in AcThreads : AssetRunnable(acThr[t].pc)

\* a nested request meets contention: a thread holding the assets mutex waits
\* for the textures mutex, which another thread holds
C28_Witness ==
    \E t, u \in AcThreads :
        /\ t # u
        /\ acThr[t].pc = "t_lock" /\ acMutex.holder = t
        /\ acTexMutex.holder = u

\* C29: rendering a chunk with its south and east neighbours never indexes a
\* neighbour's section list out of range: the walk over a world in which a
\* neighbouring chunk has fewer sections than the chunk rendered does not
\* end in a panic
C29_NeighbourSectionsNeverOutOfRange ==
    drPc # "panic"

\* C30: RawChunk::parse never panics: for every chunk whose NBT deserializes
\* (an empty block or biome palette, a one-entry biome palette with a data
\* array, a SkyLight or BlockLight array that is not 2048 bytes long
\* included) it returns Ok(chunk) or Err
C30_ParseNeverPanics ==
    (pcPc = "returned" /\ pcNbt.deserializes) => pcResult.status \in {"ok", "err"}

====
